---- MODULE Spec2Model ----
(***************************************************************************)
(* Credential issuance and verification state machine of credora-server:   *)
(* the CredentialRegistry, CredentialNFT and VerificationContract          *)
(* contracts.  Every state-changing contract call is one atomic action; a  *)
(* call whose require fails reverts, i.e. leaves the chain state unchanged *)
(* and reports the revert reason in ret.err.                               *)
(***************************************************************************)
EXTENDS Integers, Sequences, FiniteSets, TLC

\* ---------------------------------------------------------------- bounds
MaxTime == 2           \* block.timestamp ranges over 1..MaxTime
MaxTokens == 2         \* at most MaxTokens credentials are minted
MaxVerifications == 2  \* at most MaxVerifications counted verifications
MaxIssuerList == 2     \* issuerList never grows beyond this length
MaxBlock == 6          \* the chain grows up to this height
MaxTxs == 2            \* the server wallet sends at most MaxTxs transactions
MaxInflight == 1       \* polls of one wait whose provider calls are outstanding
MaxSent == 4           \* transactions handed to the provider by concurrent requests

\* ------------------------------------------------------------- addresses
Zero == "0x0"                 \* address(0)
Deployer == "deployer"        \* deploys the three contracts (tests: owner)
RegistryAddr == "registry"    \* the deployed CredentialRegistry
LedgerAddr == "ledger"        \* the deployed CredentialNFT
NoCode == "nocode"            \* an address that holds no contract code
FactoryAddr == "factory"      \* the deployed CredentialFactory
VerifierAddr == "verifier"    \* the VerificationContract the factory creates
Accounts == {Deployer, "instA", "instB", "student"}
Addr == {Zero} \cup Accounts
Institutions == {"instA", "instB"}

\* strings passed to the contracts
Names == {"", "MIT"}
NoRevert == ""                \* ret.err of a call that did not revert

VARIABLES
    now,                \* block.timestamp
    \* CredentialRegistry storage
    owner, admins, institutions, authorizedIssuers, issuerList,
    \* CredentialNFT storage
    nftOwner, tokenIdCounter, registry, credentials, userCredentials, owners,
    tokenURIs,
    \* VerificationContract storage
    credentialContract, registryContract,
    verificationCount, verifierCount, totalVerifications,
    \* the event log, reduced to the last authorization event of each address
    issuerEvent,
    \* the last call: operation, msg.sender, arguments (an address, a token
    \* id, an array of token ids, the other arguments of an issuance),
    \* revert reason and returned value
    ret,
    \* the chain as the server's provider reports it: the height and the
    \* transactions the server wallet has sent, in nonce order
    blockNumber, txs,
    \* the server (BlockchainController): the onboarding request in progress,
    \* its confirmation wait, the user's document in the database (the
    \* shadow record) and the last HTTP response
    wf, wait, userRecord, reply,
    \* the server wallet: the sendTransaction calls in progress and the
    \* transactions it has signed and handed to the provider
    signer,
    \* the Credential collection of the database (the shadow records), by
    \* token id
    dbCredentials,
    \* CredentialFactory storage
    factory

regVars == <<owner, admins, institutions, authorizedIssuers, issuerList>>
nftVars == <<nftOwner, tokenIdCounter, registry, credentials, userCredentials, owners,
             tokenURIs>>
verVars == <<credentialContract, registryContract, verificationCount,
             verifierCount, totalVerifications>>
chainVars == <<now, regVars, nftVars, verVars, issuerEvent, ret>>
ctlVars == <<signer, dbCredentials, factory>>
offVars == <<blockNumber, txs, wf, wait, userRecord, reply, ctlVars>>
vars == <<chainVars, offVars>>

\* ------------------------------------------------------ CredentialRegistry
\* The zero value of struct Institution (an address with no record).
NoInstitution ==
    [name |-> "", website |-> "", email |-> "", walletAddress |-> Zero,
     verified |-> FALSE, registrationDate |-> 0, credentialsIssued |-> 0,
     documentHash |-> ""]

\* The zero value of struct VerificationResult, used where a call returns none.
NoResult ==
    [isValid |-> FALSE, exists |-> FALSE, expired |-> FALSE, revoked |-> FALSE,
     issuer |-> Zero, recipient |-> Zero, credentialType |-> "",
     institutionName |-> "", issueDate |-> 0, message |-> ""]

Ret(op, caller, addr, tokenId, err) ==
    [op |-> op, caller |-> caller, addr |-> addr, tokenId |-> tokenId,
     ids |-> <<>>, args |-> <<>>, err |-> err, result |-> NoResult]

\* isAdmin that consults the admins mapping alone and forgets the owner.
isAdminOnlyMapping(account) == admins[account]

\* modifier onlyAdmin / isAdmin
isAdmin(account) == admins[account] \/ account = owner

isAuthorizedIssuer(issuer) == authorizedIssuers[issuer]

getAllIssuers == issuerList

getVerifiedInstitutionsCount == Len(issuerList)

\* bytes(institutions[a].name).length > 0
HasRecord(a) == institutions[a].name /= ""

\* The loop of revokeInstitution: the first entry equal to a is overwritten
\* by the last entry and the list is popped; no entry equal to a, no change.
RECURSIVE FirstIndex(_, _, _)
FirstIndex(list, a, i) ==
    IF i > Len(list) THEN 0
    ELSE IF list[i] = a THEN i
    ELSE FirstIndex(list, a, i + 1)

RemoveIssuer(list, a) ==
    LET i == FirstIndex(list, a, 1) IN
    IF i = 0 THEN list
    ELSE SubSeq([list EXCEPT ![i] = list[Len(list)]], 1, Len(list) - 1)

RegisterError(caller, a, name) ==
    IF ~isAdmin(caller) THEN "Not authorized admin"
    ELSE IF a = Zero THEN "Invalid address"
    ELSE IF name = "" THEN "Name cannot be empty"
    ELSE IF HasRecord(a) THEN "Institution already registered"
    ELSE NoRevert

registerInstitution(caller, a, name, website, email, documentHash) ==
    LET err == RegisterError(caller, a, name) IN
    /\ ret' = Ret("registerInstitution", caller, a, -1, err)
    /\ IF err /= NoRevert
       THEN UNCHANGED institutions
       ELSE institutions' = [institutions EXCEPT ![a] =
                [name |-> name, website |-> website, email |-> email,
                 walletAddress |-> a, verified |-> FALSE,
                 registrationDate |-> now, credentialsIssued |-> 0,
                 documentHash |-> documentHash]]
    /\ UNCHANGED <<now, owner, admins, authorizedIssuers, issuerList,
                   nftVars, verVars, issuerEvent>>

\* VerifyError without the "Already verified" requirement.
VerifyErrorNoVerifiedCheck(caller, a) ==
    IF ~isAdmin(caller) THEN "Not authorized admin"
    ELSE IF ~HasRecord(a) THEN "Institution not registered"
    ELSE NoRevert

VerifyError(caller, a) ==
    IF ~isAdmin(caller) THEN "Not authorized admin"
    ELSE IF ~HasRecord(a) THEN "Institution not registered"
    ELSE IF institutions[a].verified THEN "Already verified"
    ELSE NoRevert

verifyInstitution(caller, a) ==
    LET err == VerifyError(caller, a) IN
    /\ err = NoRevert => Len(issuerList) < MaxIssuerList
    /\ ret' = Ret("verifyInstitution", caller, a, -1, err)
    /\ IF err /= NoRevert
       THEN UNCHANGED <<institutions, authorizedIssuers, issuerList, issuerEvent>>
       ELSE /\ institutions' = [institutions EXCEPT ![a].verified = TRUE]
            /\ authorizedIssuers' = [authorizedIssuers EXCEPT ![a] = TRUE]
            /\ issuerList' = Append(issuerList, a)
            /\ issuerEvent' = [issuerEvent EXCEPT ![a] = "InstitutionVerified"]
    /\ UNCHANGED <<now, owner, admins, nftVars, verVars>>

RevokeError(caller, a) ==
    IF ~isAdmin(caller) THEN "Not authorized admin"
    ELSE IF ~authorizedIssuers[a] THEN "Institution not authorized"
    ELSE NoRevert

\* revokeInstitution that clears verified but leaves authorizedIssuers set.
revokeInstitutionKeepsAuthorization(caller, a) ==
    LET err == RevokeError(caller, a) IN
    /\ ret' = Ret("revokeInstitution", caller, a, -1, err)
    /\ IF err /= NoRevert
       THEN UNCHANGED <<institutions, issuerList, issuerEvent>>
       ELSE /\ institutions' = [institutions EXCEPT ![a].verified = FALSE]
            /\ issuerList' = RemoveIssuer(issuerList, a)
            /\ issuerEvent' = [issuerEvent EXCEPT ![a] = "InstitutionRevoked"]
    /\ UNCHANGED <<now, owner, admins, authorizedIssuers, nftVars, verVars>>

revokeInstitution(caller, a) ==
    LET err == RevokeError(caller, a) IN
    /\ ret' = Ret("revokeInstitution", caller, a, -1, err)
    /\ IF err /= NoRevert
       THEN UNCHANGED <<institutions, authorizedIssuers, issuerList, issuerEvent>>
       ELSE /\ authorizedIssuers' = [authorizedIssuers EXCEPT ![a] = FALSE]
            /\ institutions' = [institutions EXCEPT ![a].verified = FALSE]
            /\ issuerList' = RemoveIssuer(issuerList, a)
            /\ issuerEvent' = [issuerEvent EXCEPT ![a] = "InstitutionRevoked"]
    /\ UNCHANGED <<now, owner, admins, nftVars, verVars>>

\* external, no modifier: any account may call it
IncrementError(issuer) ==
    IF ~authorizedIssuers[issuer] THEN "Not authorized issuer" ELSE NoRevert

incrementCredentialCount(caller, issuer) ==
    LET err == IncrementError(issuer) IN
    /\ err = NoRevert => institutions[issuer].credentialsIssued < MaxTokens
    /\ ret' = Ret("incrementCredentialCount", caller, issuer, -1, err)
    /\ IF err /= NoRevert
       THEN UNCHANGED institutions
       ELSE institutions' = [institutions EXCEPT ![issuer].credentialsIssued = @ + 1]
    /\ UNCHANGED <<now, owner, admins, authorizedIssuers, issuerList,
                   nftVars, verVars, issuerEvent>>

UpdateError(caller, a) ==
    IF ~isAdmin(caller) THEN "Not authorized admin"
    ELSE IF ~HasRecord(a) THEN "Institution not registered"
    ELSE NoRevert

updateInstitutionInfo(caller, a, name, website, email) ==
    LET err == UpdateError(caller, a) IN
    /\ ret' = Ret("updateInstitutionInfo", caller, a, -1, err)
    /\ IF err /= NoRevert
       THEN UNCHANGED institutions
       ELSE institutions' = [institutions EXCEPT
                ![a].name = name, ![a].website = website, ![a].email = email]
    /\ UNCHANGED <<now, owner, admins, authorizedIssuers, issuerList,
                   nftVars, verVars, issuerEvent>>

updateInstitutionDocuments(caller, a, documentHash) ==
    LET err == UpdateError(caller, a) IN
    /\ ret' = Ret("updateInstitutionDocuments", caller, a, -1, err)
    /\ IF err /= NoRevert
       THEN UNCHANGED institutions
       ELSE institutions' = [institutions EXCEPT ![a].documentHash = documentHash]
    /\ UNCHANGED <<now, owner, admins, authorizedIssuers, issuerList,
                   nftVars, verVars, issuerEvent>>

\* modifier onlyOwner of Ownable
OwnerError(caller) ==
    IF caller /= owner THEN "Ownable: caller is not the owner" ELSE NoRevert

addAdmin(caller, admin) ==
    LET err == OwnerError(caller) IN
    /\ ret' = Ret("addAdmin", caller, admin, -1, err)
    /\ IF err /= NoRevert
       THEN UNCHANGED admins
       ELSE admins' = [admins EXCEPT ![admin] = TRUE]
    /\ UNCHANGED <<now, owner, institutions, authorizedIssuers, issuerList,
                   nftVars, verVars, issuerEvent>>

removeAdmin(caller, admin) ==
    LET err == OwnerError(caller) IN
    /\ ret' = Ret("removeAdmin", caller, admin, -1, err)
    /\ IF err /= NoRevert
       THEN UNCHANGED admins
       ELSE admins' = [admins EXCEPT ![admin] = FALSE]
    /\ UNCHANGED <<now, owner, institutions, authorizedIssuers, issuerList,
                   nftVars, verVars, issuerEvent>>

\* ------------------------------------------------------------ CredentialNFT
\* credentials, owners and tokenURIs are functions on the minted token ids.
\* ERC721 _exists(tokenId): the token has an owner.
Exists(tokenId) == tokenId \in DOMAIN owners

getTotalCredentials == tokenIdCounter

getUserCredentials(user) == userCredentials[user]

balanceOf(user) == Cardinality({t \in DOMAIN owners : owners[t] = user})

\* The storage issueCredential writes, as one value, so that a batch can
\* thread it through its loop and a revert can discard it.
LedgerState ==
    [tokenIdCounter |-> tokenIdCounter, credentials |-> credentials,
     userCredentials |-> userCredentials, owners |-> owners,
     tokenURIs |-> tokenURIs, institutions |-> institutions, err |-> NoRevert]

\* Minted that stores the institution name as credential type and the
\* credential type as institution name.
MintedSwapsNames(st, tokenId, sender, recipient, credentialType, institutionName, expiryDate, ipfsHash, tokenMetadataURI) ==
    [st EXCEPT
        !.credentials = (tokenId :>
            [issuer |-> sender, recipient |-> recipient,
             credentialType |-> institutionName,
             institutionName |-> credentialType, issueDate |-> now,
             expiryDate |-> expiryDate, ipfsHash |-> ipfsHash,
             revoked |-> FALSE]) @@ @,
        !.userCredentials[recipient] = Append(@, tokenId),
        !.owners = (tokenId :> recipient) @@ @,
        !.tokenURIs = (tokenId :> tokenMetadataURI) @@ @]

\* Minted without the entry in the recipient's credential index.
MintedNoIndex(st, tokenId, sender, recipient, credentialType, institutionName, expiryDate, ipfsHash, tokenMetadataURI) ==
    [st EXCEPT
        !.credentials = (tokenId :>
            [issuer |-> sender, recipient |-> recipient,
             credentialType |-> credentialType,
             institutionName |-> institutionName, issueDate |-> now,
             expiryDate |-> expiryDate, ipfsHash |-> ipfsHash,
             revoked |-> FALSE]) @@ @,
        !.owners = (tokenId :> recipient) @@ @,
        !.tokenURIs = (tokenId :> tokenMetadataURI) @@ @]

\* The credential record and the storage updates of one issuance.
Minted(st, tokenId, sender, recipient, credentialType, institutionName, expiryDate, ipfsHash, tokenMetadataURI) ==
    [st EXCEPT
        !.credentials = (tokenId :>
            [issuer |-> sender, recipient |-> recipient,
             credentialType |-> credentialType,
             institutionName |-> institutionName, issueDate |-> now,
             expiryDate |-> expiryDate, ipfsHash |-> ipfsHash,
             revoked |-> FALSE]) @@ @,
        !.userCredentials[recipient] = Append(@, tokenId),
        !.owners = (tokenId :> recipient) @@ @,
        !.tokenURIs = (tokenId :> tokenMetadataURI) @@ @]

\* IssueOne without the onlyAuthorizedIssuer modifier and without the call
\* back into the registry.
IssueOneUnguarded(st, sender, recipient, credentialType, institutionName, expiryDate, ipfsHash, tokenMetadataURI) ==
    LET tokenId == st.tokenIdCounter IN
    IF recipient = Zero THEN [st EXCEPT !.err = "ERC721: mint to the zero address"]
    ELSE IF tokenId \in DOMAIN st.owners
    THEN [st EXCEPT !.err = "ERC721: token already minted"]
    ELSE [Minted(st, tokenId, sender, recipient, credentialType, institutionName,
                 expiryDate, ipfsHash, tokenMetadataURI)
            EXCEPT !.tokenIdCounter = @ + 1]

\* IssueOne without _tokenIdCounter.increment().
IssueOneNoIncrement(st, sender, recipient, credentialType, institutionName, expiryDate, ipfsHash, tokenMetadataURI) ==
    LET tokenId == st.tokenIdCounter IN
    IF registry = NoCode THEN [st EXCEPT !.err = "revert"]
    ELSE IF ~isAuthorizedIssuer(sender) THEN [st EXCEPT !.err = "Not authorized issuer"]
    ELSE IF recipient = Zero THEN [st EXCEPT !.err = "ERC721: mint to the zero address"]
    ELSE IF tokenId \in DOMAIN st.owners
    THEN [st EXCEPT !.err = "ERC721: token already minted"]
    ELSE [Minted(st, tokenId, sender, recipient, credentialType, institutionName,
                 expiryDate, ipfsHash, tokenMetadataURI)
            EXCEPT !.institutions[sender].credentialsIssued = @ + 1]

\* One execution of issueCredential by sender on storage st; st.err is the
\* revert reason when a require of the call chain fails: the modifier, _mint,
\* or registry.incrementCredentialCount.
IssueOne(st, sender, recipient, credentialType, institutionName, expiryDate, ipfsHash, tokenMetadataURI) ==
    LET tokenId == st.tokenIdCounter IN
    IF registry = NoCode THEN [st EXCEPT !.err = "revert"]
    ELSE IF ~isAuthorizedIssuer(sender) THEN [st EXCEPT !.err = "Not authorized issuer"]
    ELSE IF recipient = Zero THEN [st EXCEPT !.err = "ERC721: mint to the zero address"]
    ELSE IF tokenId \in DOMAIN st.owners
    THEN [st EXCEPT !.err = "ERC721: token already minted"]
    ELSE IF IncrementError(sender) /= NoRevert
    THEN [st EXCEPT !.err = IncrementError(sender)]
    ELSE [Minted(st, tokenId, sender, recipient, credentialType, institutionName,
                 expiryDate, ipfsHash, tokenMetadataURI)
            EXCEPT !.tokenIdCounter = @ + 1,
                   !.institutions[sender].credentialsIssued = @ + 1]

\* A revert discards st; otherwise st becomes the storage.
Commit(st) ==
    IF st.err /= NoRevert
    THEN UNCHANGED <<tokenIdCounter, credentials, userCredentials, owners,
                     tokenURIs, institutions>>
    ELSE /\ tokenIdCounter' = st.tokenIdCounter
         /\ credentials' = st.credentials
         /\ userCredentials' = st.userCredentials
         /\ owners' = st.owners
         /\ tokenURIs' = st.tokenURIs
         /\ institutions' = st.institutions

issueCredential(caller, recipient, credentialType, institutionName, expiryDate, ipfsHash, tokenMetadataURI) ==
    LET st == IssueOne(LedgerState, caller, recipient, credentialType,
                       institutionName, expiryDate, ipfsHash, tokenMetadataURI) IN
    /\ st.tokenIdCounter <= MaxTokens
    /\ ret' = [Ret("issueCredential", caller, recipient,
                   IF st.err = NoRevert THEN tokenIdCounter ELSE -1, st.err)
                  EXCEPT !.args = <<credentialType, institutionName, expiryDate,
                                    ipfsHash, tokenMetadataURI>>]
    /\ Commit(st)
    /\ UNCHANGED <<now, owner, admins, authorizedIssuers, issuerList, nftOwner,
                   registry, verVars, issuerEvent>>

\* BatchLoop that passes over a failed issuance and goes on with the next.
RECURSIVE BatchLoopKeepsPartial(_, _, _, _, _, _, _, _, _)
BatchLoopKeepsPartial(st, i, sender, recipients, credentialTypes, institutionName, expiryDate, ipfsHashes, tokenURIsArg) ==
    IF i > Len(recipients) THEN st
    ELSE LET one == IssueOne(st, sender, recipients[i], credentialTypes[i],
                             institutionName, expiryDate, ipfsHashes[i],
                             tokenURIsArg[i])
         IN BatchLoopKeepsPartial(IF one.err = NoRevert THEN one ELSE st,
                                  i + 1, sender, recipients, credentialTypes,
                                  institutionName, expiryDate, ipfsHashes,
                                  tokenURIsArg)

\* The loop of batchIssueCredentials from index i on; a failed issuance
\* reverts the whole call, so the loop stops at the first st.err.
RECURSIVE BatchLoop(_, _, _, _, _, _, _, _, _)
BatchLoop(st, i, sender, recipients, credentialTypes, institutionName, expiryDate, ipfsHashes, tokenURIsArg) ==
    IF i > Len(recipients) \/ st.err /= NoRevert THEN st
    ELSE BatchLoop(IssueOne(st, sender, recipients[i], credentialTypes[i],
                            institutionName, expiryDate, ipfsHashes[i],
                            tokenURIsArg[i]),
                   i + 1, sender, recipients, credentialTypes, institutionName,
                   expiryDate, ipfsHashes, tokenURIsArg)

BatchIssue(st, sender, recipients, credentialTypes, institutionName, expiryDate, ipfsHashes, tokenURIsArg) ==
    IF registry = NoCode THEN [st EXCEPT !.err = "revert"]
    ELSE IF ~isAuthorizedIssuer(sender) THEN [st EXCEPT !.err = "Not authorized issuer"]
    ELSE IF \/ Len(recipients) /= Len(credentialTypes)
            \/ Len(recipients) /= Len(ipfsHashes)
            \/ Len(recipients) /= Len(tokenURIsArg)
    THEN [st EXCEPT !.err = "Array length mismatch"]
    ELSE BatchLoop(st, 1, sender, recipients, credentialTypes, institutionName,
                   expiryDate, ipfsHashes, tokenURIsArg)

batchIssueCredentials(caller, recipients, credentialTypes, institutionName, expiryDate, ipfsHashes, tokenURIsArg) ==
    LET st == BatchIssue(LedgerState, caller, recipients, credentialTypes,
                         institutionName, expiryDate, ipfsHashes, tokenURIsArg) IN
    /\ st.tokenIdCounter <= MaxTokens
    /\ ret' = [Ret("batchIssueCredentials", caller, Zero, -1, st.err)
                  EXCEPT !.args = <<recipients, credentialTypes, ipfsHashes,
                                    tokenURIsArg>>]
    /\ Commit(st)
    /\ UNCHANGED <<now, owner, admins, authorizedIssuers, issuerList, nftOwner,
                   registry, verVars, issuerEvent>>

\* RevokeCredentialError that compares the caller with the token's current
\* owner instead of the issuer of record.
RevokeCredentialErrorByOwner(caller, tokenId) ==
    IF ~Exists(tokenId) THEN "Credential does not exist"
    ELSE IF owners[tokenId] /= caller THEN "Only issuer can revoke"
    ELSE IF credentials[tokenId].revoked THEN "Already revoked"
    ELSE NoRevert

RevokeCredentialError(caller, tokenId) ==
    IF ~Exists(tokenId) THEN "Credential does not exist"
    ELSE IF credentials[tokenId].issuer /= caller THEN "Only issuer can revoke"
    ELSE IF credentials[tokenId].revoked THEN "Already revoked"
    ELSE NoRevert

\* revokeCredential that flips the flag and lacks the "Already revoked" check.
revokeCredentialToggle(caller, tokenId) ==
    LET err == IF ~Exists(tokenId) THEN "Credential does not exist"
               ELSE IF credentials[tokenId].issuer /= caller
               THEN "Only issuer can revoke"
               ELSE NoRevert IN
    /\ ret' = Ret("revokeCredential", caller, Zero, tokenId, err)
    /\ IF err /= NoRevert
       THEN UNCHANGED credentials
       ELSE credentials' = [credentials EXCEPT ![tokenId].revoked = ~@]
    /\ UNCHANGED <<now, regVars, nftOwner, tokenIdCounter, registry, userCredentials,
                   owners, tokenURIs, verVars, issuerEvent>>

revokeCredential(caller, tokenId) ==
    LET err == RevokeCredentialError(caller, tokenId) IN
    /\ ret' = Ret("revokeCredential", caller, Zero, tokenId, err)
    /\ IF err /= NoRevert
       THEN UNCHANGED credentials
       ELSE credentials' = [credentials EXCEPT ![tokenId].revoked = TRUE]
    /\ UNCHANGED <<now, regVars, nftOwner, tokenIdCounter, registry, userCredentials,
                   owners, tokenURIs, verVars, issuerEvent>>

\* verifyCredential with block.timestamp >= expiryDate as the expiry test.
verifyCredentialInclusive(tokenId) ==
    IF ~Exists(tokenId)
    THEN [ok |-> FALSE, isValid |-> FALSE, issuer |-> Zero, recipient |-> Zero,
          credentialType |-> "", institutionName |-> "", issueDate |-> 0,
          expired |-> FALSE, revoked |-> FALSE]
    ELSE LET cred == credentials[tokenId]
             hasExpired == cred.expiryDate /= 0 /\ now >= cred.expiryDate
         IN [ok |-> TRUE, isValid |-> ~cred.revoked /\ ~hasExpired,
             issuer |-> cred.issuer, recipient |-> cred.recipient,
             credentialType |-> cred.credentialType,
             institutionName |-> cred.institutionName,
             issueDate |-> cred.issueDate, expired |-> hasExpired,
             revoked |-> cred.revoked]

\* The view verifyCredential; ok = FALSE stands for its revert
\* "Credential does not exist".
verifyCredential(tokenId) ==
    IF ~Exists(tokenId)
    THEN [ok |-> FALSE, isValid |-> FALSE, issuer |-> Zero, recipient |-> Zero,
          credentialType |-> "", institutionName |-> "", issueDate |-> 0,
          expired |-> FALSE, revoked |-> FALSE]
    ELSE LET cred == credentials[tokenId]
             hasExpired == cred.expiryDate /= 0 /\ now > cred.expiryDate
         IN [ok |-> TRUE, isValid |-> ~cred.revoked /\ ~hasExpired,
             issuer |-> cred.issuer, recipient |-> cred.recipient,
             credentialType |-> cred.credentialType,
             institutionName |-> cred.institutionName,
             issueDate |-> cred.issueDate, expired |-> hasExpired,
             revoked |-> cred.revoked]

\* ERC721.transferFrom, inherited; called by the token's owner.
TransferError(caller, from, to, tokenId) ==
    IF ~Exists(tokenId) THEN "ERC721: invalid token ID"
    ELSE IF owners[tokenId] /= caller
    THEN "ERC721: caller is not token owner or approved"
    ELSE IF owners[tokenId] /= from THEN "ERC721: transfer from incorrect owner"
    ELSE IF to = Zero THEN "ERC721: transfer to the zero address"
    ELSE NoRevert

\* transferFrom that also rewrites the recipient stored in the credential.
transferFromUpdatesRecipient(caller, from, to, tokenId) ==
    LET err == TransferError(caller, from, to, tokenId) IN
    /\ ret' = Ret("transferFrom", caller, to, tokenId, err)
    /\ IF err /= NoRevert
       THEN UNCHANGED <<owners, credentials>>
       ELSE /\ owners' = [owners EXCEPT ![tokenId] = to]
            /\ credentials' = [credentials EXCEPT ![tokenId].recipient = to]
    /\ UNCHANGED <<now, regVars, nftOwner, tokenIdCounter, registry,
                   userCredentials, tokenURIs, verVars, issuerEvent>>

transferFrom(caller, from, to, tokenId) ==
    LET err == TransferError(caller, from, to, tokenId) IN
    /\ ret' = Ret("transferFrom", caller, to, tokenId, err)
    /\ IF err /= NoRevert
       THEN UNCHANGED owners
       ELSE owners' = [owners EXCEPT ![tokenId] = to]
    /\ UNCHANGED <<now, regVars, nftOwner, tokenIdCounter, registry, credentials,
                   userCredentials, tokenURIs, verVars, issuerEvent>>

updateRegistry(caller, registryAddress) ==
    LET err == IF caller /= nftOwner THEN "Ownable: caller is not the owner"
               ELSE NoRevert IN
    /\ ret' = Ret("updateRegistry", caller, registryAddress, -1, err)
    /\ IF err /= NoRevert
       THEN UNCHANGED registry
       ELSE registry' = registryAddress
    /\ UNCHANGED <<now, regVars, nftOwner, tokenIdCounter, credentials,
                   userCredentials, owners, tokenURIs, verVars, issuerEvent>>

\* ----------------------------------------------------- VerificationContract
\* DetailedResult whose catch branch reports an existing, invalid credential.
DetailedResultMissingAsInvalid(tokenId) ==
    LET r == verifyCredential(tokenId)
        found(valid, message) ==
            [isValid |-> valid, exists |-> TRUE, expired |-> r.expired,
             revoked |-> r.revoked, issuer |-> r.issuer, recipient |-> r.recipient,
             credentialType |-> r.credentialType,
             institutionName |-> r.institutionName, issueDate |-> r.issueDate,
             message |-> message]
    IN
    IF credentialContract = NoCode THEN [NoResult EXCEPT !.message = "revert"]
    ELSE IF ~r.ok THEN found(FALSE, "Credential is invalid")
    ELSE IF r.revoked THEN found(FALSE, "Credential has been revoked by issuer")
    ELSE IF r.expired THEN found(FALSE, "Credential has expired")
    ELSE IF registryContract = NoCode THEN [NoResult EXCEPT !.message = "revert"]
    ELSE IF ~isAuthorizedIssuer(r.issuer)
    THEN found(FALSE, "Issuer is no longer authorized")
    ELSE IF r.isValid THEN found(r.isValid, "Credential is valid and verified")
    ELSE found(r.isValid, "Credential is invalid")

\* DetailedResult with the expiry test ahead of the revocation test.
DetailedResultExpiredFirst(tokenId) ==
    LET r == verifyCredential(tokenId)
        found(valid, message) ==
            [isValid |-> valid, exists |-> TRUE, expired |-> r.expired,
             revoked |-> r.revoked, issuer |-> r.issuer, recipient |-> r.recipient,
             credentialType |-> r.credentialType,
             institutionName |-> r.institutionName, issueDate |-> r.issueDate,
             message |-> message]
    IN
    IF credentialContract = NoCode THEN [NoResult EXCEPT !.message = "revert"]
    ELSE IF ~r.ok THEN [NoResult EXCEPT !.message = "Credential does not exist"]
    ELSE IF r.expired THEN found(FALSE, "Credential has expired")
    ELSE IF r.revoked THEN found(FALSE, "Credential has been revoked by issuer")
    ELSE IF registryContract = NoCode THEN [NoResult EXCEPT !.message = "revert"]
    ELSE IF ~isAuthorizedIssuer(r.issuer)
    THEN found(FALSE, "Issuer is no longer authorized")
    ELSE IF r.isValid THEN found(r.isValid, "Credential is valid and verified")
    ELSE found(r.isValid, "Credential is invalid")

\* The value verifyCredentialDetailed returns; "revert" in message stands for
\* a revert of the whole call: an external call to an address without code
\* reverts in the caller and is not caught by try/catch.
DetailedResult(tokenId) ==
    LET r == verifyCredential(tokenId)
        found(valid, message) ==
            [isValid |-> valid, exists |-> TRUE, expired |-> r.expired,
             revoked |-> r.revoked, issuer |-> r.issuer, recipient |-> r.recipient,
             credentialType |-> r.credentialType,
             institutionName |-> r.institutionName, issueDate |-> r.issueDate,
             message |-> message]
    IN
    IF credentialContract = NoCode THEN [NoResult EXCEPT !.message = "revert"]
    ELSE IF ~r.ok THEN [NoResult EXCEPT !.message = "Credential does not exist"]
    ELSE IF r.revoked THEN found(FALSE, "Credential has been revoked by issuer")
    ELSE IF r.expired THEN found(FALSE, "Credential has expired")
    ELSE IF registryContract = NoCode THEN [NoResult EXCEPT !.message = "revert"]
    ELSE IF ~isAuthorizedIssuer(r.issuer)
    THEN found(FALSE, "Issuer is no longer authorized")
    ELSE IF r.isValid THEN found(r.isValid, "Credential is valid and verified")
    ELSE found(r.isValid, "Credential is invalid")

\* verifyCredentialDetailed that counts the verifier and the total only.
verifyCredentialDetailedNoTokenCount(caller, tokenId) ==
    LET res == DetailedResult(tokenId) IN
    /\ totalVerifications < MaxVerifications
    /\ IF res.message = "revert"
       THEN /\ ret' = Ret("verifyCredentialDetailed", caller, Zero, tokenId, "revert")
            /\ UNCHANGED <<verifierCount, totalVerifications>>
       ELSE /\ ret' = [Ret("verifyCredentialDetailed", caller, Zero, tokenId, NoRevert)
                          EXCEPT !.result = res]
            /\ verifierCount' = [verifierCount EXCEPT ![caller] = @ + 1]
            /\ totalVerifications' = totalVerifications + 1
    /\ UNCHANGED <<now, regVars, nftVars, credentialContract, registryContract,
                   verificationCount, issuerEvent>>

verifyCredentialDetailed(caller, tokenId) ==
    LET res == DetailedResult(tokenId) IN
    /\ totalVerifications < MaxVerifications
    /\ IF res.message = "revert"
       THEN /\ ret' = Ret("verifyCredentialDetailed", caller, Zero, tokenId, "revert")
            /\ UNCHANGED <<verificationCount, verifierCount, totalVerifications>>
       ELSE /\ ret' = [Ret("verifyCredentialDetailed", caller, Zero, tokenId, NoRevert)
                          EXCEPT !.result = res]
            /\ verificationCount' = [verificationCount EXCEPT ![tokenId] = @ + 1]
            /\ verifierCount' = [verifierCount EXCEPT ![caller] = @ + 1]
            /\ totalVerifications' = totalVerifications + 1
    /\ UNCHANGED <<now, regVars, nftVars, credentialContract, registryContract,
                   issuerEvent>>

\* The counters as one value, so that batchVerifyCredentials can thread them
\* through its loop; results collects the values returned so far.
CounterState ==
    [verificationCount |-> verificationCount, verifierCount |-> verifierCount,
     totalVerifications |-> totalVerifications, results |-> <<>>, err |-> NoRevert]

\* VerifyOne that counts a token only when its credential exists.
VerifyOneSkipsMissingTokenCount(cs, sender, tokenId) ==
    LET res == DetailedResult(tokenId) IN
    IF res.message = "revert" THEN [cs EXCEPT !.err = "revert"]
    ELSE [cs EXCEPT !.verificationCount[tokenId] = IF res.exists THEN @ + 1 ELSE @,
                    !.verifierCount[sender] = @ + 1,
                    !.totalVerifications = @ + 1,
                    !.results = Append(@, res)]

\* One execution of verifyCredentialDetailed by sender on counters cs.
VerifyOne(cs, sender, tokenId) ==
    LET res == DetailedResult(tokenId) IN
    IF res.message = "revert" THEN [cs EXCEPT !.err = "revert"]
    ELSE [cs EXCEPT !.verificationCount[tokenId] = @ + 1,
                    !.verifierCount[sender] = @ + 1,
                    !.totalVerifications = @ + 1,
                    !.results = Append(@, res)]

\* BatchVerifyLoop that leaves out the ids whose credential does not exist.
RECURSIVE BatchVerifyLoopSkipMissing(_, _, _, _)
BatchVerifyLoopSkipMissing(cs, i, sender, tokenIds) ==
    IF i > Len(tokenIds) \/ cs.err /= NoRevert THEN cs
    ELSE BatchVerifyLoopSkipMissing(
             IF Exists(tokenIds[i]) THEN VerifyOne(cs, sender, tokenIds[i]) ELSE cs,
             i + 1, sender, tokenIds)

\* The loop of batchVerifyCredentials from index i on; msg.sender of the
\* internal calls is the caller of the batch.
RECURSIVE BatchVerifyLoop(_, _, _, _)
BatchVerifyLoop(cs, i, sender, tokenIds) ==
    IF i > Len(tokenIds) \/ cs.err /= NoRevert THEN cs
    ELSE BatchVerifyLoop(VerifyOne(cs, sender, tokenIds[i]), i + 1, sender, tokenIds)

batchVerifyCredentials(caller, tokenIds) ==
    LET cs == BatchVerifyLoop(CounterState, 1, caller, tokenIds) IN
    /\ totalVerifications + Len(tokenIds) <= MaxVerifications
    /\ ret' = [Ret("batchVerifyCredentials", caller, Zero, -1, cs.err)
                  EXCEPT !.ids = tokenIds,
                         !.result = IF cs.err = NoRevert THEN cs.results ELSE <<>>]
    /\ IF cs.err /= NoRevert
       THEN UNCHANGED <<verificationCount, verifierCount, totalVerifications>>
       ELSE /\ verificationCount' = cs.verificationCount
            /\ verifierCount' = cs.verifierCount
            /\ totalVerifications' = cs.totalVerifications
    /\ UNCHANGED <<now, regVars, nftVars, credentialContract, registryContract,
                   issuerEvent>>

\* The view quickVerify: the boolean it returns, or err = "revert" when one
\* of its two external calls goes to an address without code; && does not
\* evaluate its right operand when the left one is false.
quickVerify(tokenId) ==
    LET r == verifyCredential(tokenId) IN
    IF credentialContract = NoCode THEN [err |-> "revert", value |-> FALSE]
    ELSE IF ~r.ok THEN [err |-> NoRevert, value |-> FALSE]
    ELSE IF ~r.isValid THEN [err |-> NoRevert, value |-> FALSE]
    ELSE IF registryContract = NoCode THEN [err |-> "revert", value |-> FALSE]
    ELSE [err |-> NoRevert, value |-> isAuthorizedIssuer(r.issuer)]

\* The view quickBatchVerify: results[i] = quickVerify(tokenIds[i]).
quickBatchVerify(tokenIds) ==
    LET q == [i \in 1..Len(tokenIds) |-> quickVerify(tokenIds[i])] IN
    IF \E i \in 1..Len(tokenIds) : q[i].err /= NoRevert
    THEN [err |-> "revert", value |-> <<>>]
    ELSE [err |-> NoRevert, value |-> [i \in 1..Len(tokenIds) |-> q[i].value]]

\* A call of one of the two views: nothing but the record of the call changes.
CallQuickVerify(caller, tokenId) ==
    LET q == quickVerify(tokenId) IN
    /\ ret' = [Ret("quickVerify", caller, Zero, tokenId, q.err)
                  EXCEPT !.result = q.value]
    /\ UNCHANGED <<now, regVars, nftVars, verVars, issuerEvent>>

CallQuickBatchVerify(caller, tokenIds) ==
    LET q == quickBatchVerify(tokenIds) IN
    /\ ret' = [Ret("quickBatchVerify", caller, Zero, -1, q.err)
                  EXCEPT !.ids = tokenIds, !.result = q.value]
    /\ UNCHANGED <<now, regVars, nftVars, verVars, issuerEvent>>

updateContracts(caller, credentialAddress, registryAddress) ==
    LET err == IF registryContract = NoCode THEN "revert"
               ELSE IF caller /= owner
               THEN "Only registry owner can update contracts"
               ELSE NoRevert IN
    /\ ret' = Ret("updateContracts", caller, credentialAddress, -1, err)
    /\ IF err /= NoRevert
       THEN UNCHANGED <<credentialContract, registryContract>>
       ELSE /\ credentialContract' = credentialAddress
            /\ registryContract' = registryAddress
    /\ UNCHANGED <<now, regVars, nftVars, verificationCount, verifierCount,
                   totalVerifications, issuerEvent>>

\* block.timestamp grows from one block to the next.
Tick ==
    /\ now < MaxTime
    /\ now' = now + 1
    /\ ret' = Ret("tick", Zero, Zero, -1, NoRevert)
    /\ UNCHANGED <<regVars, nftVars, verVars, issuerEvent>>

\* ----------------------------------------------- BlockchainController
\* The server signs with one wallet (blockchain.ts, PRIVATE_KEY), the
\* deployer of the contracts; the authenticated user is the institution
\* instA.  A transaction hash is the position of the transaction in txs.
ServerWallet == Deployer
UserWallet == "instA"
UserName == "MIT"
NoHash == 0
AlreadyRegistered == -1          \* the literal 'Already registered'
Confirmations == 2               \* the depth both waits of the workflow ask for

\* provider.getTransactionReceipt: null until the transaction is mined,
\* then the block and the status (1 success, 0 reverted).
NoReceipt == [blockNumber |-> 0, status |-> -1]
getTransactionReceipt(txHash) ==
    IF txHash \in 1..Len(txs) /\ txs[txHash].blockNumber /= 0
    THEN [blockNumber |-> txs[txHash].blockNumber, status |-> txs[txHash].status]
    ELSE NoReceipt

getCurrentBlockNumber == blockNumber

Tx(method, to) == [method |-> method, to |-> to, blockNumber |-> 0, status |-> -1]

\* The hash of the server's oldest transaction that is not mined yet, or NoHash.
NextToMine ==
    IF \E h \in 1..Len(txs) : txs[h].blockNumber = 0
    THEN CHOOSE h \in 1..Len(txs) :
            txs[h].blockNumber = 0 /\ \A g \in 1..(h - 1) : txs[g].blockNumber /= 0
    ELSE NoHash

\* The document of the user (User model), field blockchain.
NewUser ==
    [isRegistered |-> FALSE, registrationTxHash |-> NoHash,
     verificationTxHash |-> NoHash, registrationBlockNumber |-> 0,
     verificationBlockNumber |-> 0, verificationStatus |-> "none"]

NoReply == [op |-> "none", code |-> 0, status |-> "", txHash |-> NoHash]
Reply(op, code, status, txHash) ==
    [op |-> op, code |-> code, status |-> status, txHash |-> txHash]

IdleWorkflow ==
    [pc |-> "idle", isRegistered |-> FALSE, registrationTx |-> NoHash,
     verificationTx |-> NoHash, registrationReceipt |-> NoReceipt]

\* waitForTransactionWithTimeout: the promise (result "none" while it is
\* unresolved, then "null" or "receipt"), the two timers, the time since the
\* call in polling intervals, the last interval at which the polling timer
\* fired, and the polls whose provider calls have not returned yet.
NoWait ==
    [txHash |-> NoHash, confirmations |-> 0, elapsed |-> 0, polledAt |-> 0,
     timeoutId |-> FALSE, intervalId |-> FALSE, result |-> "none",
     receipt |-> NoReceipt, polls |-> <<>>]

\* timeoutMs (60000) in polling intervals (10000 ms)
TimeoutIntervals == 6

NewWait(txHash, confirmations) ==
    [txHash |-> txHash, confirmations |-> confirmations, elapsed |-> 0,
     polledAt |-> 0, timeoutId |-> TRUE, intervalId |-> TRUE, result |-> "none",
     receipt |-> NoReceipt, polls |-> <<>>]

\* resolve that settles the promise again on every call.
ResolveOverwrites(w, result, receipt) == [w EXCEPT !.result = result, !.receipt = receipt]

\* resolve(value) of the promise: only the first call settles it.
Resolve(w, result, receipt) ==
    IF w.result /= "none" THEN w
    ELSE [w EXCEPT !.result = result, !.receipt = receipt]

RemoveAt(list, i) == [j \in 1..(Len(list) - 1) |-> IF j < i THEN list[j] ELSE list[j + 1]]

offRest == <<blockNumber, txs, wf, userRecord, reply, ctlVars>>

\* Time passes by one polling interval.  Node runs a timer when it is due:
\* time does not move on while the deadline timer or the polling timer of
\* the interval reached is still to run.
Clock ==
    /\ wait.timeoutId \/ wait.intervalId
    /\ wait.timeoutId => wait.elapsed < TimeoutIntervals
    /\ (wait.intervalId /\ wait.elapsed >= 1) => wait.polledAt = wait.elapsed
    /\ wait' = [wait EXCEPT !.elapsed = @ + 1]
    /\ UNCHANGED <<chainVars, offRest>>

\* The setTimeout callback: stops the polling timer and resolves to null.
TimeoutFires ==
    /\ wait.timeoutId
    /\ wait.elapsed >= TimeoutIntervals
    /\ wait' = Resolve([wait EXCEPT !.timeoutId = FALSE, !.intervalId = FALSE],
                       "null", NoReceipt)
    /\ UNCHANGED <<chainVars, offRest>>

\* The setInterval callback with its first provider call: the node answers
\* getTransactionReceipt from its state when the timer fires; without a
\* receipt the poll is over, with one it goes on to ask for the height of
\* the chain.  The deadline timer, set first, runs first when both are due.
\* Once MaxInflight polls are outstanding, a further poll is one whose
\* provider call fails.
IntervalFires ==
    /\ wait.intervalId
    /\ wait.elapsed >= 1
    /\ wait.polledAt < wait.elapsed
    /\ ~(wait.timeoutId /\ wait.elapsed >= TimeoutIntervals)
    /\ LET receipt == getTransactionReceipt(wait.txHash) IN
       wait' = [wait EXCEPT !.polledAt = wait.elapsed,
                            !.polls = IF receipt = NoReceipt \/ Len(@) >= MaxInflight
                                      THEN @
                                      ELSE Append(@, [receipt |-> receipt])]
    /\ UNCHANGED <<chainVars, offRest>>

\* PollDecision that takes any receipt as confirmation, whatever its depth.
PollDecisionAnyReceipt(w, receipt, currentBlock) ==
    Resolve([w EXCEPT !.timeoutId = FALSE, !.intervalId = FALSE], "receipt", receipt)

\* The comparison of the confirmation count with the required depth.
PollDecision(w, receipt, currentBlock) ==
    LET confirmationCount == currentBlock - receipt.blockNumber IN
    IF confirmationCount >= w.confirmations
    THEN Resolve([w EXCEPT !.timeoutId = FALSE, !.intervalId = FALSE],
                 "receipt", receipt)
    ELSE w

\* getCurrentBlockNumber returns: the poll decides and is over.
PollBlock(i) ==
    /\ i \in 1..Len(wait.polls)
    /\ wait' = [PollDecision(wait, wait.polls[i].receipt, getCurrentBlockNumber)
                    EXCEPT !.polls = RemoveAt(@, i)]
    /\ UNCHANGED <<chainVars, offRest>>

\* PollError that gives the wait up: both timers are stopped and the promise
\* is left unresolved.
PollErrorStopsTimers(i) ==
    /\ i \in 1..Len(wait.polls)
    /\ wait' = [wait EXCEPT !.polls = RemoveAt(@, i), !.timeoutId = FALSE,
                            !.intervalId = FALSE]
    /\ UNCHANGED <<chainVars, offRest>>

\* A provider call of the poll throws: the catch block logs it.
PollError(i) ==
    /\ i \in 1..Len(wait.polls)
    /\ wait' = [wait EXCEPT !.polls = RemoveAt(@, i)]
    /\ UNCHANGED <<chainVars, offRest>>

\* A block without a transaction of the server wallet.
MineBlock ==
    /\ blockNumber < MaxBlock
    /\ blockNumber' = blockNumber + 1
    /\ UNCHANGED <<chainVars, txs, wf, wait, userRecord, reply, ctlVars>>

\* A block with the oldest waiting transaction of the server wallet: the
\* registry executes the call and the receipt records whether it reverted.
MineTx ==
    LET h == NextToMine IN
    /\ blockNumber < MaxBlock
    /\ h /= NoHash
    /\ IF txs[h].method = "registerInstitution"
       THEN registerInstitution(ServerWallet, txs[h].to, UserName, "", "admin@mit.edu", "")
       ELSE verifyInstitution(ServerWallet, txs[h].to)
    /\ blockNumber' = blockNumber + 1
    /\ txs' = [txs EXCEPT ![h].blockNumber = blockNumber + 1,
                          ![h].status = IF ret'.err = NoRevert THEN 1 ELSE 0]
    /\ UNCHANGED <<wf, wait, userRecord, reply, ctlVars>>

\* contract.method(..., {gasLimit, gasPrice}): with the gas limit given
\* (estimateGas falls back to 500000 when the estimate fails) the wallet
\* signs and broadcasts the transaction without simulating it.
Submit(method) == Append(txs, Tx(method, UserWallet))

\* The catch block of registerUserOnBlockchain: status 500, nothing stored.
Failed500 ==
    /\ reply' = Reply("registerUserOnBlockchain", 500, "error", NoHash)
    /\ wf' = IdleWorkflow
    /\ wait' = NoWait
    /\ UNCHANGED userRecord

\* Step 2 of the workflow: send verifyInstitution and wait for it; sent is
\* false when the provider rejects the transaction.
SubmitVerification(sent, isRegistered, registrationReceipt) ==
    IF ~sent
    THEN Failed500 /\ UNCHANGED txs
    ELSE /\ txs' = Submit("verifyInstitution")
         /\ wf' = [wf EXCEPT !.pc = "waitVerification",
                             !.isRegistered = isRegistered,
                             !.verificationTx = Len(txs) + 1,
                             !.registrationReceipt = registrationReceipt]
         /\ wait' = NewWait(Len(txs) + 1, Confirmations)
         /\ UNCHANGED <<userRecord, reply>>

\* registerUserOnBlockchain up to its first wait: the two reads of the
\* registry, then step 1 (registration) or, for an institution that has a
\* record, step 2.
StartOnboarding(sent) ==
    /\ wf.pc = "idle"
    /\ Len(txs) + (IF isAuthorizedIssuer(UserWallet) THEN 0
                   ELSE IF institutions[UserWallet].name /= "" THEN 1 ELSE 2) <= MaxTxs
    /\ IF isAuthorizedIssuer(UserWallet)
       THEN /\ reply' = Reply("registerUserOnBlockchain", 400, "already_verified", NoHash)
            /\ UNCHANGED <<txs, wf, wait, userRecord>>
       ELSE LET isRegistered == institutions[UserWallet].name /= "" IN
            IF isRegistered
            THEN SubmitVerification(sent, TRUE, NoReceipt)
            ELSE IF ~sent
            THEN Failed500 /\ UNCHANGED txs
            ELSE /\ txs' = Submit("registerInstitution")
                 /\ wf' = [IdleWorkflow EXCEPT !.pc = "waitRegistration",
                                               !.registrationTx = Len(txs) + 1]
                 /\ wait' = NewWait(Len(txs) + 1, Confirmations)
                 /\ UNCHANGED <<userRecord, reply>>
    /\ UNCHANGED <<chainVars, blockNumber, ctlVars>>

\* After the wait for the registration: null is thrown as an error, a
\* receipt lets the workflow go on to step 2.
AfterRegistration(sent) ==
    /\ wf.pc = "waitRegistration"
    /\ wait.result /= "none"
    /\ IF wait.result = "null"
       THEN Failed500 /\ UNCHANGED txs
       ELSE SubmitVerification(sent, FALSE, wait.receipt)
    /\ UNCHANGED <<chainVars, blockNumber, ctlVars>>

\* The $set of both database updates of the workflow; a field whose value
\* is undefined is left as it is.
WorkflowRecord(verificationBlockNumber, verificationStatus) ==
    [userRecord EXCEPT
        !.isRegistered = TRUE,
        !.registrationTxHash =
            IF wf.registrationTx /= NoHash THEN wf.registrationTx ELSE AlreadyRegistered,
        !.verificationTxHash = wf.verificationTx,
        !.registrationBlockNumber =
            IF wf.registrationReceipt /= NoReceipt
            THEN wf.registrationReceipt.blockNumber ELSE @,
        !.verificationBlockNumber = verificationBlockNumber,
        !.verificationStatus = verificationStatus]

\* After the wait for the verification: null stores 'pending' and answers
\* with the hash, a receipt stores 'confirmed' and answers with the
\* authorization read from the registry.
AfterVerification ==
    /\ wf.pc = "waitVerification"
    /\ wait.result /= "none"
    /\ IF wait.result = "null"
       THEN /\ userRecord' = WorkflowRecord(0, "pending")
            /\ reply' = Reply("registerUserOnBlockchain", 200, "verification_pending",
                              wf.verificationTx)
       ELSE /\ userRecord' = WorkflowRecord(wait.receipt.blockNumber, "confirmed")
            /\ reply' = Reply("registerUserOnBlockchain", 200,
                              IF isAuthorizedIssuer(UserWallet)
                              THEN "fully_verified" ELSE "verification_pending",
                              wf.verificationTx)
    /\ wf' = IdleWorkflow
    /\ wait' = NoWait
    /\ UNCHANGED <<chainVars, blockNumber, txs, ctlVars>>

\* checkVerificationStatus that does not compare the hash with the user's
\* verificationTxHash.
checkVerificationStatusAnyHash(txHash) ==
    LET receipt == getTransactionReceipt(txHash) IN
    /\ IF txHash \notin 1..Len(txs)
       THEN /\ reply' = Reply("checkVerificationStatus", 404, "not_found", txHash)
            /\ UNCHANGED userRecord
       ELSE /\ userRecord' =
                IF receipt /= NoReceipt /\ receipt.status = 1
                THEN [userRecord EXCEPT
                         !.verificationBlockNumber = receipt.blockNumber,
                         !.verificationStatus = "confirmed"]
                ELSE userRecord
            /\ reply' = Reply("checkVerificationStatus", 200,
                              IF receipt = NoReceipt THEN "pending"
                              ELSE IF receipt.status = 1 THEN "success" ELSE "failed",
                              txHash)
    /\ UNCHANGED <<chainVars, blockNumber, txs, wf, wait, ctlVars>>

\* checkVerificationStatus for a hash of the right format.
checkVerificationStatus(txHash) ==
    LET receipt == getTransactionReceipt(txHash) IN
    /\ IF txHash \notin 1..Len(txs)
       THEN /\ reply' = Reply("checkVerificationStatus", 404, "not_found", txHash)
            /\ UNCHANGED userRecord
       ELSE /\ userRecord' =
                IF receipt /= NoReceipt /\ receipt.status = 1
                   /\ userRecord.verificationTxHash = txHash
                THEN [userRecord EXCEPT
                         !.verificationBlockNumber = receipt.blockNumber,
                         !.verificationStatus = "confirmed"]
                ELSE userRecord
            /\ reply' = Reply("checkVerificationStatus", 200,
                              IF receipt = NoReceipt THEN "pending"
                              ELSE IF receipt.status = 1 THEN "success" ELSE "failed",
                              txHash)
    /\ UNCHANGED <<chainVars, blockNumber, txs, wf, wait, ctlVars>>

\* checkBlockchainRegistration: the Institution struct has no
\* registrationTxHash, registrationBlockNumber or blockNumber, so these
\* three values are undefined.
checkBlockchainRegistration ==
    LET isAuthorized == isAuthorizedIssuer(UserWallet)
        isRegistered == institutions[UserWallet].name /= "" IN
    /\ userRecord' =
          IF ~userRecord.isRegistered /\ isRegistered
          THEN [userRecord EXCEPT !.isRegistered = TRUE,
                                  !.verificationStatus = "confirmed"]
          ELSE userRecord
    /\ reply' = Reply("checkBlockchainRegistration", 200,
                      IF isAuthorized THEN "Fully registered and verified"
                      ELSE IF isRegistered THEN "Registered but not verified"
                      ELSE "Not registered", NoHash)
    /\ UNCHANGED <<chainVars, blockNumber, txs, wf, wait, ctlVars>>

\* ------------------------------------------------------ the server wallet
\* Every transaction of the server is sent through one ethers.Wallet on a
\* JsonRpcProvider (blockchain.ts), by whichever request handler reaches its
\* contract call; the handlers of two requests interleave at every await.
\* sendTransaction of the wallet first asks the provider for the account's
\* pending transaction count and takes it as the nonce, then signs and
\* broadcasts; nothing in the server orders the calls of different requests.
Requests == {"onboarding", "issuance"}
NoNonce == -1
IdleSigner == [calls |-> [r \in Requests |-> NoNonce], sent |-> <<>>]

\* eth_getTransactionCount(address, "pending"): the nonces the node holds a
\* transaction for (a second transaction with a nonce already held replaces
\* the first or is rejected).
getTransactionCount == Cardinality({signer.sent[i].nonce : i \in 1..Len(signer.sent)})

\* The contract call of request r up to the answer of the nonce query.
sendTransactionBegins(r) ==
    /\ signer.calls[r] = NoNonce
    /\ Len(signer.sent) < MaxSent
    /\ signer' = [signer EXCEPT !.calls[r] = getTransactionCount]
    /\ UNCHANGED <<chainVars, blockNumber, txs, wf, wait, userRecord, reply, dbCredentials, factory>>

\* The transaction is signed with that nonce and handed to the provider.
broadcastTransaction(r) ==
    /\ signer.calls[r] /= NoNonce
    /\ signer' = [signer EXCEPT
                     !.calls[r] = NoNonce,
                     !.sent = Append(@, [request |-> r, nonce |-> signer.calls[r]])]
    /\ UNCHANGED <<chainVars, blockNumber, txs, wf, wait, userRecord, reply, dbCredentials, factory>>

\* ------------------------------- CredentialController, VerificationController
\* Credential.findOne returning null
NoCredential == [issuer |-> Zero, recipient |-> Zero, status |-> "none", expiryDate |-> 0]

onbVars == <<blockNumber, txs, wf, wait, userRecord>>

\* CredentialController.issueCredential for the authenticated user: the
\* registry is asked about the user's address, the transaction is sent by
\* the server wallet (a call that would revert fails in the gas estimate and
\* is answered 500), and after tx.wait() the document is saved with the
\* token id of the CredentialIssued event.
CredentialController_issueCredential(user, recipientAddress, credentialType, expiryDate, ipfsHash, tokenURI) ==
    IF ~isAuthorizedIssuer(user)
    THEN /\ reply' = Reply("issueCredential", 403, "Not authorized to issue credentials", NoHash)
         /\ UNCHANGED <<chainVars, onbVars, ctlVars>>
    ELSE /\ issueCredential(ServerWallet, recipientAddress, credentialType, UserName,
                            expiryDate, ipfsHash, tokenURI)
         /\ IF ret'.err /= NoRevert
            THEN /\ reply' = Reply("issueCredential", 500, "Failed to issue credential", NoHash)
                 /\ UNCHANGED dbCredentials
            ELSE /\ reply' = Reply("issueCredential", 201, "issued", NoHash)
                 /\ dbCredentials' =
                       [dbCredentials EXCEPT
                           ![ret'.tokenId] = [issuer |-> user, recipient |-> recipientAddress,
                                             status |-> "issued", expiryDate |-> expiryDate]]
         /\ UNCHANGED <<onbVars, signer, factory>>

\* CredentialController.revokeCredential: the checks on the document, the
\* transaction of the server wallet, then credential.revoke(reason).
CredentialController_revokeCredential(user, tokenId) ==
    LET credential == dbCredentials[tokenId] IN
    IF credential = NoCredential
    THEN /\ reply' = Reply("revokeCredential", 404, "Credential not found", NoHash)
         /\ UNCHANGED <<chainVars, onbVars, ctlVars>>
    ELSE IF credential.issuer /= user
    THEN /\ reply' = Reply("revokeCredential", 403, "Only the issuer can revoke this credential", NoHash)
         /\ UNCHANGED <<chainVars, onbVars, ctlVars>>
    ELSE IF credential.status = "revoked"
    THEN /\ reply' = Reply("revokeCredential", 400, "Credential is already revoked", NoHash)
         /\ UNCHANGED <<chainVars, onbVars, ctlVars>>
    ELSE /\ revokeCredential(ServerWallet, tokenId)
         /\ IF ret'.err /= NoRevert
            THEN /\ reply' = Reply("revokeCredential", 500, "Failed to revoke credential", NoHash)
                 /\ UNCHANGED dbCredentials
            ELSE /\ reply' = Reply("revokeCredential", 200, "Credential revoked successfully", NoHash)
                 /\ dbCredentials' = [dbCredentials EXCEPT ![tokenId].status = "revoked"]
         /\ UNCHANGED <<onbVars, signer, factory>>

\* The verificationResult of VerificationController.verifyCredential: the
\* chain is asked for ownerOf(tokenId) and, for the issuer address of the
\* document, isAuthorizedIssuer; expiry and revocation are read from the
\* document.
VerificationResult(tokenId) ==
    LET credentialExists == Exists(tokenId)
        dbCredential == dbCredentials[tokenId]
        expired == dbCredential.expiryDate /= 0 /\ now > dbCredential.expiryDate
        revoked == dbCredential.status = "revoked"
        issuerChecked == dbCredential.issuer /= Zero
        issuerVerified == issuerChecked /\ isAuthorizedIssuer(dbCredential.issuer)
    IN [isValid |-> /\ credentialExists
                    /\ ~expired
                    /\ ~revoked
                    /\ (issuerChecked => issuerVerified),
        exists |-> credentialExists,
        expired |-> expired,
        revoked |-> revoked,
        message |-> IF issuerChecked /\ ~issuerVerified THEN "Issuer is not authorized"
                    ELSE IF revoked THEN "Credential revoked"
                    ELSE IF expired THEN "Credential has expired"
                    ELSE "Valid"]

\* VerificationController.verifyCredential without a verifierAddress.
VerificationController_verifyCredential(tokenId) ==
    /\ reply' =
          IF ~Exists(tokenId) /\ dbCredentials[tokenId] = NoCredential
          THEN [op |-> "verifyCredential", code |-> 404, status |-> "Credential not found",
                txHash |-> NoHash, tokenId |-> tokenId, isValid |-> FALSE]
          ELSE [op |-> "verifyCredential", code |-> 200,
                status |-> VerificationResult(tokenId).message,
                txHash |-> NoHash, tokenId |-> tokenId,
                isValid |-> VerificationResult(tokenId).isValid]
    /\ UNCHANGED <<chainVars, onbVars, ctlVars>>

\* ------------------------------------------------------- CredentialFactory
\* The factory after its constructor, called by Deployer.
NewFactory ==
    [owner |-> Deployer, registryContract |-> Zero, credentialContract |-> Zero,
     verificationContract |-> Zero]

getAddresses ==
    <<factory.registryContract, factory.credentialContract, factory.verificationContract>>

\* The storage of the three contracts right after `new`, with creator as
\* msg.sender of the constructors: Ownable makes it the owner of the registry
\* and of the ledger, the registry's constructor makes it the one admin.
Created(creator) ==
    /\ owner' = creator
    /\ admins' = [a \in Addr \cup {FactoryAddr} |-> a = creator]
    /\ institutions' = [a \in Addr |-> NoInstitution]
    /\ authorizedIssuers' = [a \in Addr |-> FALSE]
    /\ issuerList' = <<>>
    /\ nftOwner' = creator
    /\ tokenIdCounter' = 0
    /\ registry' = RegistryAddr
    /\ credentials' = <<>>
    /\ userCredentials' = [a \in Addr |-> <<>>]
    /\ owners' = <<>>
    /\ tokenURIs' = <<>>
    /\ credentialContract' = LedgerAddr
    /\ registryContract' = RegistryAddr
    /\ verificationCount' = [t \in 0..MaxTokens |-> 0]
    /\ verifierCount' = [a \in Addr |-> 0]
    /\ totalVerifications' = 0
    /\ issuerEvent' = [a \in Addr |-> "none"]

\* deploySystem without the onlyOwner modifier.
deploySystemByAnyone(caller) ==
    LET err == IF factory.registryContract /= Zero THEN "revert" ELSE NoRevert IN
    /\ ret' = Ret("deploySystem", caller, Zero, -1, err)
    /\ IF err /= NoRevert
       THEN UNCHANGED <<factory, regVars, nftVars, verVars, issuerEvent>>
       ELSE /\ factory' = [factory EXCEPT !.registryContract = RegistryAddr,
                                          !.credentialContract = LedgerAddr,
                                          !.verificationContract = VerifierAddr]
            /\ Created(FactoryAddr)
    /\ UNCHANGED <<now, onbVars, reply, signer, dbCredentials>>

\* deploySystem that hands the registry and the ledger over to its caller
\* (transferOwnership and addAdmin at the end of the deployment).
deploySystemOwnedByCaller(caller) ==
    LET err == IF caller /= factory.owner THEN "revert"
               ELSE IF factory.registryContract /= Zero THEN "revert"
               ELSE NoRevert IN
    /\ ret' = Ret("deploySystem", caller, Zero, -1, err)
    /\ IF err /= NoRevert
       THEN UNCHANGED <<factory, regVars, nftVars, verVars, issuerEvent>>
       ELSE /\ factory' = [factory EXCEPT !.registryContract = RegistryAddr,
                                          !.credentialContract = LedgerAddr,
                                          !.verificationContract = VerifierAddr]
            /\ Created(caller)
    /\ UNCHANGED <<now, onbVars, reply, signer, dbCredentials>>

\* deploySystem: the two requires (no message), then the three contracts are
\* created by the factory, which is msg.sender of their constructors.  The
\* contract variables stand for the contracts the factory creates.
deploySystem(caller) ==
    LET err == IF caller /= factory.owner THEN "revert"
               ELSE IF factory.registryContract /= Zero THEN "revert"
               ELSE NoRevert IN
    /\ ret' = Ret("deploySystem", caller, Zero, -1, err)
    /\ IF err /= NoRevert
       THEN UNCHANGED <<factory, regVars, nftVars, verVars, issuerEvent>>
       ELSE /\ factory' = [factory EXCEPT !.registryContract = RegistryAddr,
                                          !.credentialContract = LedgerAddr,
                                          !.verificationContract = VerifierAddr]
            /\ Created(FactoryAddr)
    /\ UNCHANGED <<now, onbVars, reply, signer, dbCredentials>>

\* Ownable.transferOwnership of the registry.
transferOwnership(caller, newOwner) ==
    LET err == IF caller /= owner THEN "Ownable: caller is not the owner"
               ELSE IF newOwner = Zero THEN "Ownable: new owner is the zero address"
               ELSE NoRevert IN
    /\ ret' = Ret("transferOwnership", caller, newOwner, -1, err)
    /\ IF err /= NoRevert THEN UNCHANGED owner ELSE owner' = newOwner
    /\ UNCHANGED <<now, admins, institutions, authorizedIssuers, issuerList,
                   nftVars, verVars, issuerEvent>>

\* The state after the construction of the factory alone: none of the three
\* contracts exists yet.
InitFactory ==
    /\ now = 1
    /\ owner = Zero
    /\ admins = [a \in Addr \cup {FactoryAddr} |-> FALSE]
    /\ institutions = [a \in Addr |-> NoInstitution]
    /\ authorizedIssuers = [a \in Addr |-> FALSE]
    /\ issuerList = <<>>
    /\ nftOwner = Zero
    /\ tokenIdCounter = 0
    /\ registry = Zero
    /\ credentials = <<>>
    /\ userCredentials = [a \in Addr |-> <<>>]
    /\ owners = <<>>
    /\ tokenURIs = <<>>
    /\ credentialContract = Zero
    /\ registryContract = Zero
    /\ verificationCount = [t \in 0..MaxTokens |-> 0]
    /\ verifierCount = [a \in Addr |-> 0]
    /\ totalVerifications = 0
    /\ issuerEvent = [a \in Addr |-> "none"]
    /\ ret = Ret("constructor", Deployer, Zero, -1, NoRevert)
    /\ blockNumber = 1
    /\ txs = <<>>
    /\ wf = IdleWorkflow
    /\ wait = NoWait
    /\ userRecord = NewUser
    /\ reply = NoReply
    /\ signer = IdleSigner
    /\ dbCredentials = [t \in 0..MaxTokens |-> NoCredential]
    /\ factory = NewFactory

\* ------------------------------------------------------------------- Init
\* The state after the deployment of the three contracts by Deployer
\* (tests/CredentialPassport.test.js, beforeEach, before any registration).
Init ==
    /\ now = 1
    /\ owner = Deployer
    /\ admins = [a \in Addr |-> a = Deployer]
    /\ institutions = [a \in Addr |-> NoInstitution]
    /\ authorizedIssuers = [a \in Addr |-> FALSE]
    /\ issuerList = <<>>
    /\ nftOwner = Deployer
    /\ tokenIdCounter = 0
    /\ registry = RegistryAddr
    /\ credentials = <<>>
    /\ userCredentials = [a \in Addr |-> <<>>]
    /\ owners = <<>>
    /\ tokenURIs = <<>>
    /\ credentialContract = LedgerAddr
    /\ registryContract = RegistryAddr
    /\ verificationCount = [t \in 0..MaxTokens |-> 0]
    /\ verifierCount = [a \in Addr |-> 0]
    /\ totalVerifications = 0
    /\ issuerEvent = [a \in Addr |-> "none"]
    /\ ret = Ret("constructor", Deployer, Zero, -1, NoRevert)
    /\ blockNumber = 1
    /\ txs = <<>>
    /\ wf = IdleWorkflow
    /\ wait = NoWait
    /\ userRecord = NewUser
    /\ reply = NoReply
    /\ signer = IdleSigner
    /\ dbCredentials = [t \in 0..MaxTokens |-> NoCredential]
    /\ factory = NewFactory

\* A call sent to the contracts directly, not through the server.
OnChain(call) == call /\ UNCHANGED offVars

\* ------------------------------------------------- registry specification
\* The registry taken alone: every external function of CredentialRegistry,
\* called by the owner (Deployer, an admin until removeAdmin takes it out of
\* the admin set) or by an account that is an admin only after addAdmin
\* ("student").  instA goes through every operation; instB is
\* the second issuer, which is registered, verified and revoked.
RegCalls ==
    ({Deployer} \X {Zero, "instA", "instB"}) \cup {<<"student", "instA">>}
RegCallsA == {Deployer, "student"} \X {"instA"}

RegRegister ==
    \E call \in RegCalls, n \in Names :
        registerInstitution(call[1], call[2], n, "https://mit.edu", "admin@mit.edu",
                            "QmHash123")
RegVerify == \E call \in RegCalls : verifyInstitution(call[1], call[2])
RegRevoke == \E call \in RegCalls : revokeInstitution(call[1], call[2])
RegIncrement == incrementCredentialCount("student", "instA")
RegUpdateInfo ==
    \E call \in RegCallsA, n \in Names :
        updateInstitutionInfo(call[1], call[2], n, "https://tu.edu", "admin@tu.edu")
RegUpdateDocuments ==
    \E call \in RegCallsA : updateInstitutionDocuments(call[1], call[2], "QmHash456")
RegAddAdmin == \E c \in {Deployer, "student"} : addAdmin(c, "student")
RegRemoveAdmin ==
    \E call \in ({Deployer, "student"} \X {"student"}) \cup {<<Deployer, Deployer>>} :
        removeAdmin(call[1], call[2])

NextRegistry ==
    \/ OnChain(RegRegister)
    \/ OnChain(RegVerify)
    \/ OnChain(RegRevoke)
    \/ OnChain(RegIncrement)
    \/ OnChain(RegUpdateInfo)
    \/ OnChain(RegUpdateDocuments)
    \/ OnChain(RegAddAdmin)
    \/ OnChain(RegRemoveAdmin)

SpecRegistry == Init /\ [][NextRegistry]_vars

\* --------------------------------------------------- system specification
\* The three contracts together.  instA is the institution, registered,
\* verified and revoked by Deployer; "student" receives credentials, may
\* pass one on to instB, and calls the verification contract.
Templates ==
    {[credentialType |-> "Degree", expiryDate |-> 0, ipfsHash |-> "QmDegree",
      uri |-> "https://metadata.uri/0"],
     [credentialType |-> "Certificate", expiryDate |-> 1, ipfsHash |-> "QmCert",
      uri |-> "https://metadata.uri/1"]}

\* instA issues to "student"; a mint to address(0) and a call by an account
\* that is no institution are the calls that revert whatever the registry holds.
IssueCalls ==
    ({"instA"} \X {"student"} \X Templates)
    \cup {<<"instA", Zero, t>> : t \in {x \in Templates : x.expiryDate = 0}}
    \cup {<<"student", "student", t>> : t \in {x \in Templates : x.expiryDate = 0}}

Batches ==
    {[recipients |-> <<"student", "student">>, types |-> <<"Degree", "Degree">>,
      hashes |-> <<"QmDegree", "QmDegree">>,
      uris |-> <<"https://metadata.uri/0", "https://metadata.uri/0">>],
     [recipients |-> <<"student", Zero>>, types |-> <<"Degree", "Degree">>,
      hashes |-> <<"QmDegree", "QmDegree">>,
      uris |-> <<"https://metadata.uri/0", "https://metadata.uri/0">>],
     [recipients |-> <<"student">>, types |-> <<"Degree", "Degree">>,
      hashes |-> <<"QmDegree">>, uris |-> <<"https://metadata.uri/0">>]}

\* batches whose metadata references or token URIs are one too few or too many
MismatchedBatches ==
    {[recipients |-> <<"student">>, types |-> <<"Degree">>,
      hashes |-> <<>>, uris |-> <<"https://metadata.uri/0">>],
     [recipients |-> <<"student">>, types |-> <<"Degree">>,
      hashes |-> <<"QmDegree">>,
      uris |-> <<"https://metadata.uri/0", "https://metadata.uri/0">>]}

SysRegister ==
    registerInstitution(Deployer, "instA", "MIT", "https://mit.edu", "admin@mit.edu",
                        "QmHash123")
SysVerify == verifyInstitution(Deployer, "instA")
SysRevoke == revokeInstitution(Deployer, "instA")
SysIssue ==
    \E call \in IssueCalls :
        LET t == call[3] IN
        issueCredential(call[1], call[2], t.credentialType, "MIT", t.expiryDate, t.ipfsHash, t.uri)
SysBatchIssue ==
    \E b \in Batches :
        batchIssueCredentials("instA", b.recipients, b.types, "MIT", 0, b.hashes, b.uris)
SysRevokeCredential ==
    \E call \in ({"instA"} \X (0..MaxTokens)) \cup {<<"student", 0>>} :
        revokeCredential(call[1], call[2])
SysTransfer == transferFrom("student", "student", "instB", 0)
SysUpdateRegistry ==
    \E call \in ({Deployer} \X {RegistryAddr, NoCode}) \cup {<<"student", NoCode>>} :
        updateRegistry(call[1], call[2])
SysVerifyDetailed == verifyCredentialDetailed("student", 0)
SysUpdateContracts ==
    \E pair \in {<<LedgerAddr, RegistryAddr>>, <<LedgerAddr, NoCode>>} :
        updateContracts(Deployer, pair[1], pair[2])

\* A call that did not revert.
Succeeds(call) == call /\ ret'.err = NoRevert

\* The whole system; reverted calls leave the chain unchanged and are left
\* to the specifications of the single contracts.
Next ==
    \/ OnChain(Succeeds(SysRegister))
    \/ OnChain(Succeeds(SysVerify))
    \/ OnChain(Succeeds(SysRevoke))
    \/ OnChain(Succeeds(SysIssue))
    \/ OnChain(Succeeds(SysBatchIssue))
    \/ OnChain(Succeeds(SysRevokeCredential))
    \/ OnChain(Succeeds(SysTransfer))
    \/ OnChain(Succeeds(SysUpdateRegistry))
    \/ OnChain(Succeeds(SysVerifyDetailed))
    \/ OnChain(Succeeds(SysUpdateContracts))
    \/ OnChain(Tick)

Spec == Init /\ [][Next]_vars

\* The ledger with the registry it consults, reverted calls included.
NextLedger ==
    \/ OnChain(SysRegister)
    \/ OnChain(SysVerify)
    \/ OnChain(SysRevoke)
    \/ OnChain(SysIssue)
    \/ OnChain(SysBatchIssue)
    \/ OnChain(SysRevokeCredential)
    \/ OnChain(SysTransfer)
    \/ OnChain(SysUpdateRegistry)
    \/ OnChain(Tick)

SpecLedger == Init /\ [][NextLedger]_vars

\* ------------------------------------------------ verifier specification
\* The verification contract over the ledger and the registry: instA issues
\* credentials, revokes token 0, is revoked and verified again, credentials
\* expire; "student" verifies token ids 0, 1 and MaxTokens (the id that is
\* never minted), one by one and in batches, and instB verifies token 0.
\* Calls of the verification contract that revert are included.
BatchIds == {<<1, 0>>, <<0, 0>>, <<MaxTokens, 0>>}

VerRevokeCredential == Succeeds(revokeCredential("instA", 0))
VerDetailed ==
    \E call \in ({"student"} \X {0, 1, MaxTokens}) \cup {<<"instB", 0>>} :
        verifyCredentialDetailed(call[1], call[2])
VerBatch == \E ids \in BatchIds : batchVerifyCredentials("student", ids)
VerUpdateContracts ==
    \E call \in {<<Deployer, LedgerAddr, RegistryAddr>>, <<Deployer, LedgerAddr, NoCode>>,
                 <<"student", NoCode, NoCode>>} :
        updateContracts(call[1], call[2], call[3])

NextVerifier ==
    \/ OnChain(Succeeds(SysRegister))
    \/ OnChain(Succeeds(SysVerify))
    \/ OnChain(Succeeds(SysRevoke))
    \/ OnChain(Succeeds(SysIssue))
    \/ OnChain(VerRevokeCredential)
    \/ OnChain(VerDetailed)
    \/ OnChain(VerBatch)
    \/ OnChain(VerUpdateContracts)
    \/ OnChain(Tick)

SpecVerifier == Init /\ [][NextVerifier]_vars

\* Issuance and revocation on the ledger: instA, before and after it is an
\* authorized issuer, issues single credentials and batches, well formed,
\* with address(0) as a recipient, and with arrays of unequal lengths;
\* "student" passes token 0 on to instB; the issuer, the recipient and the
\* new owner call revokeCredential.
BatchIssueCall ==
    \E b \in Batches \cup MismatchedBatches :
        batchIssueCredentials("instA", b.recipients, b.types, "MIT", 0, b.hashes, b.uris)
RevokeCredentialCall ==
    \E call \in ({"instA"} \X {0, MaxTokens}) \cup {<<"student", 0>>, <<"instB", 0>>} :
        revokeCredential(call[1], call[2])

NextIssuance ==
    \/ OnChain(SysRegister)
    \/ OnChain(SysVerify)
    \/ OnChain(SysRevoke)
    \/ OnChain(SysIssue)
    \/ OnChain(BatchIssueCall)
    \/ OnChain(RevokeCredentialCall)
    \/ OnChain(SysTransfer)
    \/ OnChain(Tick)

SpecIssuance == Init /\ [][NextIssuance]_vars

\* The life of issued credentials: instA issues to "student", is renamed in
\* the registry, revoked and verified again; the issuer, the recipient and
\* the later owner call revokeCredential; token 0 passes from "student" to
\* instB and back; the ledger's registry pointer is moved.
LifeRename ==
    updateInstitutionInfo(Deployer, "instA", "TU", "https://tu.edu", "admin@tu.edu")
LifeTransfer ==
    \E call \in {<<"student", "instB">>, <<"instB", "student">>, <<"instA", "instA">>} :
        transferFrom(call[1], call[1], call[2], 0)

NextLife ==
    \/ OnChain(Succeeds(SysRegister))
    \/ OnChain(Succeeds(SysVerify))
    \/ OnChain(Succeeds(SysRevoke))
    \/ OnChain(Succeeds(LifeRename))
    \/ OnChain(SysIssue)
    \/ OnChain(RevokeCredentialCall)
    \/ OnChain(LifeTransfer)
    \/ OnChain(SysUpdateRegistry)
    \/ OnChain(Tick)

SpecLife == Init /\ [][NextLife]_vars

\* ---------------------------------------------- onboarding specification
\* The server and the registry: the user instA asks for onboarding; the
\* server wallet's transactions are mined in nonce order, at any later block
\* or never; the waits poll and time out; the deployer may register instA
\* by a direct call while the workflow runs.
OnbStart == \E sent \in BOOLEAN : StartOnboarding(sent)
OnbAfterRegistration == \E sent \in BOOLEAN : AfterRegistration(sent)
OnbPollBlock == \E i \in 1..MaxInflight : PollBlock(i)
OnbPollError == \E i \in 1..MaxInflight : PollError(i)
OnbDirectRegister == OnChain(Succeeds(SysRegister))

NextOnboarding ==
    \/ OnbStart
    \/ OnbAfterRegistration
    \/ AfterVerification
    \/ Clock
    \/ TimeoutFires
    \/ IntervalFires
    \/ OnbPollBlock
    \/ OnbPollError
    \/ MineBlock
    \/ MineTx
    \/ OnbDirectRegister

SpecOnboarding == Init /\ [][NextOnboarding]_vars

\* Node runs a timer that is due, and its clock goes on.
SpecOnboardingFair ==
    /\ SpecOnboarding
    /\ WF_vars(Clock)
    /\ WF_vars(TimeoutFires)
    /\ WF_vars(IntervalFires)

\* The same, with the two status checks the user may ask for at any time.
OnbCheckStatus == \E h \in 1..MaxTxs : checkVerificationStatus(h)

NextShadow ==
    \/ OnbStart
    \/ OnbAfterRegistration
    \/ AfterVerification
    \/ Clock
    \/ TimeoutFires
    \/ IntervalFires
    \/ OnbPollBlock
    \/ OnbPollError
    \/ MineBlock
    \/ MineTx
    \/ OnbDirectRegister
    \/ OnbCheckStatus
    \/ checkBlockchainRegistration

SpecShadow == Init /\ [][NextShadow]_vars

\* ---------------------------------------------------- server specification
\* The credential operations of the server next to direct calls of the
\* contracts.  The server wallet is itself registered and verified as an
\* institution (without that no transaction of the server can mint); the
\* user instA issues to "student" and revokes through the server, instA
\* also issues by calling the ledger itself, either issuer of record revokes
\* by a call of its own, and anyone asks the server to verify a token.
NextServer ==
    \/ OnChain(Succeeds(SysRegister))
    \/ OnChain(Succeeds(SysVerify))
    \/ OnChain(Succeeds(SysRevoke))
    \/ OnChain(Succeeds(registerInstitution(Deployer, ServerWallet, "MIT", "https://mit.edu",
                                             "admin@mit.edu", "QmHash123")))
    \/ OnChain(Succeeds(verifyInstitution(Deployer, ServerWallet)))
    \/ OnChain(Succeeds(\E t \in Templates :
                           issueCredential("instA", "student", t.credentialType, "MIT",
                                           t.expiryDate, t.ipfsHash, t.uri)))
    \/ OnChain(Succeeds(\E caller \in {"instA", ServerWallet}, tokenId \in 0..(MaxTokens - 1) :
                           revokeCredential(caller, tokenId)))
    \/ \E t \in Templates :
          CredentialController_issueCredential(UserWallet, "student", t.credentialType,
                                               t.expiryDate, t.ipfsHash, t.uri)
    \/ \E tokenId \in 0..(MaxTokens - 1) :
          CredentialController_revokeCredential(UserWallet, tokenId)
    \/ \E tokenId \in 0..MaxTokens : VerificationController_verifyCredential(tokenId)
    \/ OnChain(Tick)

SpecServer == Init /\ [][NextServer]_vars

\* --------------------------------------------------- factory specification
\* The factory and the system it creates: deploySystem is called by the
\* factory's owner and by "student", and once the contracts exist every
\* account calls the functions of the registry that change who may act, and
\* tries to issue and to move the pointers of the other two contracts;
\* time passes.
Deployed == factory.registryContract /= Zero
FacCall(call) == Deployed /\ OnChain(call)

NextFactory ==
    \/ \E c \in {Deployer, "student"} : deploySystem(c)
    \/ FacCall(\E c \in Accounts, a \in Accounts :
                  registerInstitution(c, a, "MIT", "https://mit.edu", "admin@mit.edu",
                                      "QmHash123"))
    \/ FacCall(\E c \in Accounts, a \in Accounts : verifyInstitution(c, a))
    \/ FacCall(\E c \in Accounts, a \in Accounts : revokeInstitution(c, a))
    \/ FacCall(\E c \in Accounts, a \in Accounts : addAdmin(c, a))
    \/ FacCall(\E c \in Accounts : removeAdmin(c, FactoryAddr))
    \/ FacCall(\E c \in Accounts : transferOwnership(c, c))
    \/ FacCall(\E c \in Accounts :
                  updateInstitutionInfo(c, c, "MIT", "https://mit.edu", "admin@mit.edu"))
    \/ FacCall(\E c \in Accounts : incrementCredentialCount(c, c))
    \/ FacCall(\E c \in Accounts :
                  issueCredential(c, "student", "Degree", "MIT", 0, "QmDegree",
                                  "https://metadata.uri/0"))
    \/ FacCall(\E c \in Accounts : updateRegistry(c, NoCode))
    \/ FacCall(\E c \in Accounts : updateContracts(c, LedgerAddr, NoCode))
    \/ OnChain(Tick)

SpecFactory == InitFactory /\ [][NextFactory]_vars

\* ---------------------------------------------------- wallet specification
\* Two requests in progress at once, an onboarding and an issuance; each
\* sends transactions one after the other, and the two interleave freely.
NextWallet ==
    \/ \E r \in Requests : sendTransactionBegins(r)
    \/ \E r \in Requests : broadcastTransaction(r)

SpecWallet == Init /\ [][NextWallet]_vars

\* The two views of the verification contract, called by "student" in the
\* states the same ledger and registry calls lead to; verifyCredentialDetailed
\* on token 0 makes the counters move.
QuickVerifyCall == \E t \in {0, 1, MaxTokens} : CallQuickVerify("student", t)
QuickBatchVerifyCall == \E ids \in BatchIds : CallQuickBatchVerify("student", ids)

NextQuick ==
    \/ OnChain(Succeeds(SysRegister))
    \/ OnChain(Succeeds(SysVerify))
    \/ OnChain(Succeeds(SysRevoke))
    \/ OnChain(Succeeds(SysIssue))
    \/ OnChain(VerRevokeCredential)
    \/ OnChain(Succeeds(SysVerifyDetailed))
    \/ OnChain(VerUpdateContracts)
    \/ OnChain(QuickVerifyCall)
    \/ OnChain(QuickBatchVerifyCall)
    \/ OnChain(Tick)

SpecQuick == Init /\ [][NextQuick]_vars

\* --------------------------------------------------------- ledger claims
\* block.timestamp > expiryDate, with 0 for "never expires"
Expired(c) == c.expiryDate /= 0 /\ now > c.expiryDate

\* C1: issueCredential and batchIssueCredentials called by an address that
\* the registry does not hold as an authorized issuer fail with "Not
\* authorized issuer" and leave registry and ledger unchanged; every
\* credential that comes into existence has the caller as issuer, and the
\* caller is an authorized issuer in that step.
C1_OnlyAuthorizedIssuerMints ==
    [][/\ (/\ ret'.op \in {"issueCredential", "batchIssueCredentials"}
           /\ registry = RegistryAddr
           /\ ~authorizedIssuers[ret'.caller])
          => (ret'.err = "Not authorized issuer" /\ UNCHANGED <<regVars, nftVars>>)
       /\ \A t \in DOMAIN credentials' \ DOMAIN credentials :
            /\ registry = RegistryAddr
            /\ credentials'[t].issuer = ret'.caller
            /\ authorizedIssuers[ret'.caller]]_vars

C1_Witness ==
    /\ ret.op = "issueCredential"
    /\ ret.caller = "instA"
    /\ ret.err = "Not authorized issuer"
    /\ registry = RegistryAddr
    /\ tokenIdCounter = 1
    /\ credentials[0].issuer = "instA"

\* C2: token ids are handed out in sequence from 0: the minted ids are
\* exactly 0 .. getTotalCredentials() - 1, a step mints the ids from the old
\* counter to the new one, issueCredential returns the old counter, a call
\* that reverts leaves the counter alone, and no step (a revocation
\* included) removes an id or gives an existing id to another credential.
C2_SequentialTokenIds ==
    [][/\ DOMAIN credentials' = 0..(getTotalCredentials' - 1)
       /\ DOMAIN owners' = DOMAIN credentials'
       /\ DOMAIN credentials' \ DOMAIN credentials
            = tokenIdCounter..(tokenIdCounter' - 1)
       /\ ret'.err /= NoRevert => tokenIdCounter' = tokenIdCounter
       /\ (ret'.op = "issueCredential" /\ ret'.err = NoRevert)
            => (ret'.tokenId = tokenIdCounter /\ tokenIdCounter' = tokenIdCounter + 1)
       /\ ret'.op = "revokeCredential" => tokenIdCounter' = tokenIdCounter
       /\ \A t \in DOMAIN credentials :
            /\ t \in DOMAIN credentials'
            /\ [credentials'[t] EXCEPT !.revoked = FALSE]
                 = [credentials[t] EXCEPT !.revoked = FALSE]]_vars

C2_Witness ==
    /\ ret.op = "issueCredential"
    /\ ret.err = NoRevert
    /\ ret.tokenId = 1
    /\ getTotalCredentials = 2
    /\ credentials[0].revoked

\* C3: a credential whose revoked flag is true keeps it in every later
\* state, whatever operation of the three contracts is executed.
C3_RevokedIsPermanent ==
    [][\A t \in DOMAIN credentials :
         credentials[t].revoked
           => (t \in DOMAIN credentials' /\ credentials'[t].revoked)]_vars

C3_Witness ==
    /\ ret.op = "verifyInstitution"
    /\ ret.err = NoRevert
    /\ 0 \in DOMAIN credentials
    /\ credentials[0].revoked
    /\ credentials[0].issuer = ret.addr
    /\ issuerEvent[ret.addr] = "InstitutionVerified"

\* C4: for an existing token, verifyCredentialDetailed reports revoked
\* before expired before issuer-not-authorized before valid, and isValid is
\* true exactly when the credential is not revoked, not expired and its
\* issuer is an authorized issuer of the registry.
C4_VerdictPriority ==
    (/\ ret.op = "verifyCredentialDetailed"
     /\ ret.err = NoRevert
     /\ ret.tokenId \in DOMAIN credentials)
    => LET c == credentials[ret.tokenId]
           res == ret.result
           authorized == registryContract = RegistryAddr /\ authorizedIssuers[c.issuer]
       IN /\ res.exists
          /\ res.revoked = c.revoked
          /\ res.expired = Expired(c)
          /\ res.isValid = (~c.revoked /\ ~Expired(c) /\ authorized)
          /\ res.message =
               IF c.revoked THEN "Credential has been revoked by issuer"
               ELSE IF Expired(c) THEN "Credential has expired"
               ELSE IF ~authorized THEN "Issuer is no longer authorized"
               ELSE "Credential is valid and verified"

C4_Witness ==
    /\ ret.op = "verifyCredentialDetailed"
    /\ ret.err = NoRevert
    /\ ret.tokenId \in DOMAIN credentials
    /\ credentials[ret.tokenId].revoked
    /\ Expired(credentials[ret.tokenId])
    /\ ~authorizedIssuers[credentials[ret.tokenId].issuer]
    /\ ret.result.message = "Credential has been revoked by issuer"
    /\ ~ret.result.isValid

\* C5: verifyCredential on a minted token reports expired exactly when
\* expiryDate is not 0 and block.timestamp is past it, and isValid exactly
\* when the credential is neither revoked nor expired, whatever the
\* registry says of the issuer; a credential reported expired is reported
\* expired after every later step.
C5_Reading(t) ==
    LET c == credentials[t]
        r == verifyCredential(t)
    IN /\ r.ok
       /\ c.expiryDate = 0 => ~r.expired
       /\ now <= c.expiryDate => ~r.expired
       /\ (c.expiryDate /= 0 /\ now > c.expiryDate) => r.expired
       /\ r.isValid = (~c.revoked /\ ~r.expired)
       /\ r.revoked = c.revoked

C5_LedgerValidity ==
    [][\A t \in DOMAIN credentials' :
         /\ C5_Reading(t)'
         /\ (t \in DOMAIN credentials /\ verifyCredential(t).expired)
              => verifyCredential(t)'.expired]_vars

C5_Witness ==
    \E t \in DOMAIN credentials :
        /\ credentials[t].expiryDate = now
        /\ verifyCredential(t).isValid
        /\ ~authorizedIssuers[credentials[t].issuer]
        /\ ret.op = "revokeInstitution"
        /\ ret.err = NoRevert

\* C18: batchIssueCredentials by an authorized issuer fails with "Array
\* length mismatch" when the four arrays do not have one length; a batch
\* with a recipient that cannot receive a token fails; a failed batch leaves
\* registry and ledger unchanged: no credential of the batch, the token-id
\* counter and the institution counters as before; a successful batch mints
\* one credential per recipient, in order, under consecutive ids, and
\* raises the issuer's credentialsIssued by the length of the batch.
C18_BatchIssueAllOrNothing ==
    [][ret'.op = "batchIssueCredentials" =>
        LET a == ret'.args
            n == Len(a[1])
            mismatch == \E k \in 2..4 : Len(a[k]) /= n
        IN /\ (registry = RegistryAddr /\ authorizedIssuers[ret'.caller] /\ mismatch)
                => ret'.err = "Array length mismatch"
           /\ (mismatch \/ \E i \in 1..n : a[1][i] = Zero) => ret'.err /= NoRevert
           /\ ret'.err /= NoRevert => UNCHANGED <<regVars, nftVars>>
           /\ ret'.err = NoRevert =>
                /\ tokenIdCounter' = tokenIdCounter + n
                /\ DOMAIN credentials' =
                      DOMAIN credentials \cup (tokenIdCounter..(tokenIdCounter + n - 1))
                /\ \A t \in DOMAIN credentials : credentials'[t] = credentials[t]
                /\ \A i \in 1..n :
                      LET t == tokenIdCounter + i - 1 IN
                      /\ credentials'[t].recipient = a[1][i]
                      /\ credentials'[t].credentialType = a[2][i]
                      /\ credentials'[t].ipfsHash = a[3][i]
                      /\ tokenURIs'[t] = a[4][i]
                      /\ owners'[t] = a[1][i]
                /\ institutions' = [institutions EXCEPT
                      ![ret'.caller].credentialsIssued = @ + n]]_vars

\* a batch whose second recipient is address(0) has failed, and the
\* credential of its first recipient does not exist
C18_Witness ==
    /\ ret.op = "batchIssueCredentials"
    /\ ret.err = "ERC721: mint to the zero address"
    /\ ret.args[1] = <<"student", Zero>>
    /\ authorizedIssuers[ret.caller]
    /\ tokenIdCounter = 0
    /\ credentials = <<>>
    /\ institutions[ret.caller].credentialsIssued = 0

\* C20: a successful issueCredential(recipient, ...) by issuer I stores, in
\* one step, the credential record with issuer I, the recipient, the
\* arguments of the call and revoked = false under the new token id, makes
\* the recipient the owner of that token, so that its balance grows by one,
\* appends the id at the end of the recipient's credential index, and
\* raises I's credentialsIssued in the registry by one; nothing else changes.
C20_IssueCredentialEffects ==
    [][(ret'.op = "issueCredential" /\ ret'.err = NoRevert) =>
        LET t == ret'.tokenId
            r == ret'.addr
            I == ret'.caller
            a == ret'.args
        IN /\ t \notin DOMAIN credentials
           /\ credentials' = (t :>
                 [issuer |-> I, recipient |-> r, credentialType |-> a[1],
                  institutionName |-> a[2], issueDate |-> now,
                  expiryDate |-> a[3], ipfsHash |-> a[4], revoked |-> FALSE])
                 @@ credentials
           /\ owners' = (t :> r) @@ owners
           /\ Cardinality({x \in DOMAIN owners' : owners'[x] = r})
                 = Cardinality({x \in DOMAIN owners : owners[x] = r}) + 1
           /\ userCredentials' = [userCredentials EXCEPT ![r] = Append(@, t)]
           /\ tokenURIs' = (t :> a[5]) @@ tokenURIs
           /\ institutions' = [institutions EXCEPT ![I].credentialsIssued = @ + 1]
           /\ UNCHANGED <<owner, admins, authorizedIssuers, issuerList, nftOwner,
                          registry>>]_vars

\* the second credential of "student", issued after the first one was
\* passed on to instB
C20_Witness ==
    /\ ret.op = "issueCredential"
    /\ ret.err = NoRevert
    /\ ret.tokenId = 1
    /\ getUserCredentials("student") = <<0, 1>>
    /\ owners[0] = "instB"
    /\ balanceOf("student") = 1
    /\ institutions["instA"].credentialsIssued = 2

\* ------------------------------------------------------- registry claims
Range(list) == {list[i] : i \in 1..Len(list)}

\* A record has been created for a at some time: registerInstitution stores
\* walletAddress = a, and nothing writes walletAddress afterwards.
EverRegistered(a) == institutions[a].walletAddress /= Zero

\* C6: an address is an authorized issuer only if the last authorization
\* event emitted for it is InstitutionVerified: a verifyInstitution succeeded
\* for it and no revokeInstitution has succeeded since.  An address for which
\* no verifyInstitution ever succeeded is not an authorized issuer.
C6_AuthorizedImpliesVerifiedNotRevoked ==
    \A a \in Addr :
        isAuthorizedIssuer(a) => issuerEvent[a] = "InstitutionVerified"

C6_Witness ==
    /\ isAuthorizedIssuer("instA")
    /\ issuerEvent["instB"] = "InstitutionRevoked"
    /\ ~isAuthorizedIssuer("instB")
    /\ HasRecord("instB")

\* C7: for every address, the Institution record's verified flag is true
\* if and only if the address is in the authorized-issuer set.
C7_VerifiedIffAuthorized ==
    \A a \in Addr : institutions[a].verified <=> isAuthorizedIssuer(a)

\* C8: once a record has been created for an address, every later
\* registerInstitution for that address by an admin with a non-empty name
\* fails with "Institution already registered" and leaves the registry
\* unchanged.
C8_RegisterOnlyOnce ==
    [][(/\ ret'.op = "registerInstitution"
        /\ EverRegistered(ret'.addr)
        /\ isAdmin(ret'.caller)
        /\ ret'.err /= "Name cannot be empty")
       => (/\ ret'.err = "Institution already registered"
           /\ UNCHANGED regVars)]_vars

\* C9: verifyInstitution by an admin fails with "Institution not registered"
\* when the address has no record, with "Already verified" when its record is
\* verified, both without changing the registry; otherwise it succeeds, sets
\* verified, makes the address an authorized issuer and appends it once to
\* issuerList, changing nothing else.
C9_VerifyInstitution ==
    [][(ret'.op = "verifyInstitution" /\ isAdmin(ret'.caller)) =>
        LET a == ret'.addr IN
        IF ~HasRecord(a)
        THEN ret'.err = "Institution not registered" /\ UNCHANGED regVars
        ELSE IF institutions[a].verified
        THEN ret'.err = "Already verified" /\ UNCHANGED regVars
        ELSE /\ ret'.err = NoRevert
             /\ institutions' = [institutions EXCEPT ![a].verified = TRUE]
             /\ authorizedIssuers' = [authorizedIssuers EXCEPT ![a] = TRUE]
             /\ issuerList' = Append(issuerList, a)
             /\ UNCHANGED <<owner, admins>>]_vars

C9_Witness ==
    /\ ret.op = "verifyInstitution"
    /\ ret.err = NoRevert
    /\ issuerList = <<"instB", "instA">>
    /\ institutions["instA"].verified
    /\ isAuthorizedIssuer("instA")

\* C10: revokeInstitution by an admin fails with "Institution not authorized"
\* when the address is not an authorized issuer, changing nothing; otherwise
\* it clears verified, removes the address from the authorized set and from
\* issuerList, leaves the authorization and list membership of every other
\* address as they were, and keeps the other fields of the record.
C10_RevokeInstitution ==
    [][(ret'.op = "revokeInstitution" /\ isAdmin(ret'.caller)) =>
        LET a == ret'.addr IN
        IF ~isAuthorizedIssuer(a)
        THEN ret'.err = "Institution not authorized" /\ UNCHANGED regVars
        ELSE /\ ret'.err = NoRevert
             /\ institutions' = [institutions EXCEPT ![a].verified = FALSE]
             /\ authorizedIssuers' = [authorizedIssuers EXCEPT ![a] = FALSE]
             /\ a \notin Range(issuerList')
             /\ \A b \in Addr \ {a} :
                    b \in Range(issuerList') <=> b \in Range(issuerList)]_vars

\* The five admin-gated functions of the registry.
AdminGated ==
    {"registerInstitution", "verifyInstitution", "revokeInstitution",
     "updateInstitutionInfo", "updateInstitutionDocuments"}

\* C11: a call of an admin-gated registry function is rejected with "Not
\* authorized admin" exactly when the caller is neither in the admin set nor
\* the owner, and addAdmin/removeAdmin are rejected exactly when the caller
\* is not the owner; a rejected call changes no registry state.  Hence a
\* non-owner taken out of the admin set is rejected, and the owner is not,
\* even when it has been taken out of the admin set.
C11_AdminGating ==
    [][/\ ret'.op \in AdminGated =>
            /\ (ret'.err = "Not authorized admin")
                  <=> ~(admins[ret'.caller] \/ ret'.caller = owner)
            /\ ret'.err = "Not authorized admin" => UNCHANGED regVars
       /\ ret'.op \in {"addAdmin", "removeAdmin"} =>
            /\ (ret'.err = NoRevert) <=> (ret'.caller = owner)
            /\ ret'.err /= NoRevert => UNCHANGED regVars
       /\ (ret'.op = "removeAdmin" /\ ret'.err = NoRevert) =>
            /\ ~admins'[ret'.addr]
            /\ (admins'[ret'.addr] \/ ret'.addr = owner') <=> (ret'.addr = owner)]_vars

\* the owner, taken out of the admin set, has verified an institution, and
\* "student" is no admin
C11_Witness ==
    /\ ~admins[owner]
    /\ ret.op = "verifyInstitution"
    /\ ret.caller = owner
    /\ ret.err = NoRevert
    /\ ~isAdmin("student")
    /\ institutions["instA"].documentHash = "QmHash456"

\* C12: revokeCredential(tokenId) fails with "Credential does not exist"
\* for an id that was never minted, with "Only issuer can revoke" for a
\* caller other than the issuer stored at mint time (the recipient and the
\* current owner included), with "Already revoked" for a revoked credential;
\* a failed call leaves registry and ledger unchanged, and a successful one
\* sets the revoked flag of that credential and nothing else.
C12_RevokeCredential ==
    [][ret'.op = "revokeCredential" =>
        LET t == ret'.tokenId
            c == ret'.caller
        IN /\ ret'.err =
                IF t \notin DOMAIN owners THEN "Credential does not exist"
                ELSE IF credentials[t].issuer /= c THEN "Only issuer can revoke"
                ELSE IF credentials[t].revoked THEN "Already revoked"
                ELSE NoRevert
           /\ ret'.err /= NoRevert => UNCHANGED <<regVars, nftVars>>
           /\ ret'.err = NoRevert =>
                /\ credentials' = [credentials EXCEPT ![t].revoked = TRUE]
                /\ UNCHANGED <<regVars, nftOwner, tokenIdCounter, registry,
                               userCredentials, owners, tokenURIs>>]_vars

\* the current owner of token 0, who got it from the recipient, was refused
C12_Witness ==
    /\ ret.op = "revokeCredential"
    /\ ret.caller = "instB"
    /\ ret.tokenId = 0
    /\ Exists(0)
    /\ owners[0] = "instB"
    /\ credentials[0].recipient = "student"
    /\ credentials[0].issuer = "instA"
    /\ ret.err = "Only issuer can revoke"
    /\ ~credentials[0].revoked

C14_CountersCountEveryCall ==
    [][/\ (ret'.op = "verifyCredentialDetailed" /\ ret'.err = NoRevert) =>
            /\ verificationCount' =
                  [verificationCount EXCEPT ![ret'.tokenId] = @ + 1]
            /\ verifierCount' = [verifierCount EXCEPT ![ret'.caller] = @ + 1]
            /\ totalVerifications' = totalVerifications + 1
       /\ (ret'.op \notin {"verifyCredentialDetailed", "batchVerifyCredentials"}
            \/ ret'.err /= NoRevert) =>
            UNCHANGED <<verificationCount, verifierCount, totalVerifications>>
       /\ \A t \in DOMAIN verificationCount :
            verificationCount'[t] >= verificationCount[t]
       /\ \A a \in Addr : verifierCount'[a] >= verifierCount[a]
       /\ totalVerifications' >= totalVerifications]_vars

\* a second verification of the same token, whose issuer has lost its
\* authorization, by another verifier
C14_Witness ==
    /\ ret.op = "verifyCredentialDetailed"
    /\ ret.caller = "instB"
    /\ ret.result.message = "Issuer is no longer authorized"
    /\ verificationCount[0] = 2
    /\ verifierCount["instB"] = 1
    /\ verifierCount["student"] = 1
    /\ totalVerifications = 2

\* C15: a verifyCredentialDetailed call on a token id that was never minted
\* raises the caller's verifier count and the total by one and leaves the
\* verification count of every token id, the queried one included, as it is.
C15_MissingTokenCountsVerifierOnly ==
    [][(/\ ret'.op = "verifyCredentialDetailed"
        /\ ret'.err = NoRevert
        /\ ret'.tokenId \notin DOMAIN credentials)
       => (/\ verifierCount' = [verifierCount EXCEPT ![ret'.caller] = @ + 1]
           /\ totalVerifications' = totalVerifications + 1
           /\ UNCHANGED verificationCount)]_vars

\* C16: quickVerify(tokenId) never reverts; it returns false for an id that
\* was never minted and otherwise whether the credential is neither revoked
\* nor expired and its issuer is an authorized issuer of the registry; it
\* changes no storage of the three contracts.  quickBatchVerify returns, in
\* the order of its input, quickVerify of each id.
C16_QuickVerifyNeverFails ==
    [][/\ ret'.op = "quickVerify" =>
            /\ ret'.err = NoRevert
            /\ ret'.result =
                 IF ret'.tokenId \notin DOMAIN credentials THEN FALSE
                 ELSE LET c == credentials[ret'.tokenId] IN
                      /\ ~c.revoked
                      /\ ~Expired(c)
                      /\ authorizedIssuers[c.issuer]
            /\ UNCHANGED <<now, regVars, nftVars, verVars>>
       /\ ret'.op = "quickBatchVerify" =>
            /\ ret'.err = NoRevert
            /\ Len(ret'.result) = Len(ret'.ids)
            /\ \A i \in 1..Len(ret'.ids) :
                  ret'.result[i] = quickVerify(ret'.ids[i]).value
            /\ UNCHANGED <<now, regVars, nftVars, verVars>>]_vars

\* C17: batchVerifyCredentials(ids) returns one entry per id, in the order
\* of ids, equal to what verifyCredentialDetailed returns for that id; an id
\* that was never minted gives an entry with exists = false and does not
\* make the call fail; the call raises totalVerifications and the caller's
\* verifier count by the length of ids, and the count of each token by the
\* number of its occurrences in ids.
C17_BatchVerify ==
    [][ret'.op = "batchVerifyCredentials" =>
        LET ids == ret'.ids
            occurrences(t) == Cardinality({i \in 1..Len(ids) : ids[i] = t})
        IN /\ registryContract = RegistryAddr => ret'.err = NoRevert
           /\ ret'.err /= NoRevert =>
                UNCHANGED <<verificationCount, verifierCount, totalVerifications>>
           /\ ret'.err = NoRevert =>
                /\ Len(ret'.result) = Len(ids)
                /\ \A i \in 1..Len(ids) :
                      /\ ret'.result[i] = DetailedResult(ids[i])
                      /\ ret'.result[i].exists <=> ids[i] \in DOMAIN credentials
                      /\ ret'.result[i].exists =>
                            ret'.result[i].issueDate = credentials[ids[i]].issueDate
                /\ totalVerifications' = totalVerifications + Len(ids)
                /\ verifierCount' =
                      [verifierCount EXCEPT ![ret'.caller] = @ + Len(ids)]
                /\ verificationCount' =
                      [t \in DOMAIN verificationCount |->
                          verificationCount[t] + occurrences(t)]]_vars

\* a batch whose first id was never minted and whose second id is a valid
\* credential
C17_Witness ==
    /\ ret.op = "batchVerifyCredentials"
    /\ ret.err = NoRevert
    /\ ret.ids = <<MaxTokens, 0>>
    /\ ~ret.result[1].exists
    /\ ret.result[2].exists
    /\ ret.result[2].isValid
    /\ verificationCount[0] = 1
    /\ verificationCount[MaxTokens] = 1
    /\ totalVerifications = 2

\* C19: when issueCredential has just succeeded for a credential whose
\* expiry is 0 or not before block.timestamp, and the next call is
\* verifyCredentialDetailed on the token id it returned, with the
\* verification contract reading the deployed registry, that call returns
\* isValid = true, exists = true, revoked = false, expired = false, the
\* issuing caller as issuer, and the recipient, credential type and
\* institution name passed to issueCredential.
C19_RoundTrip ==
    [][(/\ ret.op = "issueCredential"
        /\ ret.err = NoRevert
        /\ (ret.args[3] = 0 \/ now <= ret.args[3])
        /\ ret'.op = "verifyCredentialDetailed"
        /\ ret'.tokenId = ret.tokenId
        /\ registryContract = RegistryAddr)
       => (/\ ret'.err = NoRevert
           /\ ret'.result.isValid
           /\ ret'.result.exists
           /\ ~ret'.result.revoked
           /\ ~ret'.result.expired
           /\ ret'.result.issuer = ret.caller
           /\ ret'.result.recipient = ret.addr
           /\ ret'.result.credentialType = ret.args[1]
           /\ ret'.result.institutionName = ret.args[2]
           /\ ret'.result.message = "Credential is valid and verified")]_vars

\* the second credential of "student", issued in this block, has been
\* verified once, valid, as the only verification so far
C19_Witness ==
    /\ ret.op = "verifyCredentialDetailed"
    /\ ret.tokenId = 1
    /\ ret.result.isValid
    /\ ret.result.recipient = "student"
    /\ ret.result.issueDate = now
    /\ Len(userCredentials["student"]) = 2
    /\ credentials[0].credentialType /= credentials[1].credentialType
    /\ totalVerifications = 1

\* C21: the ledger is append-only.  In every step, every token that exists
\* still exists afterwards, with the same issuer, recipient, credential type,
\* institution name, issue date, expiry date, metadata reference and token
\* URI; its revoked flag changes only from false to true, in a successful
\* revokeCredential of that token by its issuer; its owner changes only in
\* a successful transferFrom of that token.
C21_AppendOnly ==
    [][\A t \in DOMAIN owners :
          /\ t \in DOMAIN owners'
          /\ t \in DOMAIN credentials'
          /\ [credentials'[t] EXCEPT !.revoked = credentials[t].revoked] = credentials[t]
          /\ tokenURIs'[t] = tokenURIs[t]
          /\ credentials'[t].revoked /= credentials[t].revoked =>
                /\ credentials'[t].revoked
                /\ ret'.op = "revokeCredential"
                /\ ret'.err = NoRevert
                /\ ret'.tokenId = t
                /\ ret'.caller = credentials[t].issuer
          /\ owners'[t] /= owners[t] =>
                /\ ret'.op = "transferFrom"
                /\ ret'.err = NoRevert
                /\ ret'.tokenId = t
                /\ ret'.caller = owners[t]
                /\ owners'[t] = ret'.addr]_vars

\* Token 0, issued by instA under the name "MIT", has been revoked and has
\* passed to instB, and the registry now knows instA under another name.
C21_Witness ==
    /\ Exists(0)
    /\ credentials[0].revoked
    /\ credentials[0].institutionName = "MIT"
    /\ credentials[0].recipient = "student"
    /\ owners[0] = "instB"
    /\ institutions["instA"].name = "TU"

\* C22: incrementCredentialCount takes effect only when the ledger invokes
\* it inside a successful issuance: a direct call by any other account fails
\* with "Not authorized issuer" and leaves every credentialsIssued counter
\* as it was.
C22_IncrementOnlyInIssuance ==
    [][(ret'.op = "incrementCredentialCount" /\ ret'.caller /= LedgerAddr) =>
          /\ ret'.err = "Not authorized issuer"
          /\ \A a \in Addr :
                institutions'[a].credentialsIssued = institutions[a].credentialsIssued]_vars

\* C23: in every state getUserCredentials(u) lists exactly the tokens u
\* owns: a token id is in the list if and only if u is the token's current
\* owner, and the length of the list is u's balance.
C23_UserCredentialsAreOwned ==
    \A u \in Addr :
        /\ \A t \in 0..MaxTokens :
              (t \in Range(getUserCredentials(u))) <=> (Exists(t) /\ owners[t] = u)
        /\ Len(getUserCredentials(u)) = balanceOf(u)

\* ------------------------------------------------- lifecycle manager claims
\* C24: the confirmation wait always ends.  A wait that has begun is
\* resolved; it is never unresolved past its deadline; it resolves to null
\* only at the deadline; and a step in which a poll ends without resolving
\* the wait (no receipt deep enough, or a provider error) leaves both
\* timers and the outcome as they were.
C24_WaitTerminates ==
    /\ (wait.txHash /= NoHash /\ wait.result = "none") ~> (wait.result /= "none")
    /\ [](wait.result = "none" => wait.elapsed <= TimeoutIntervals)
    /\ [][(wait.result = "none" /\ wait'.result = "null") =>
            /\ wait'.txHash = wait.txHash
            /\ wait.elapsed = TimeoutIntervals]_vars
    /\ [][(/\ wait'.txHash = wait.txHash
           /\ Len(wait'.polls) < Len(wait.polls)
           /\ wait'.result = wait.result) =>
            /\ wait'.timeoutId = wait.timeoutId
            /\ wait'.intervalId = wait.intervalId]_vars

\* The wait for the registration has timed out at the deadline, after a poll
\* at every interval before it, while its transaction is mined but not
\* deep enough and the last poll has not returned.
C24_Witness ==
    /\ wf.pc = "waitRegistration"
    /\ wait.result = "null"
    /\ wait.elapsed = TimeoutIntervals
    /\ wait.polledAt = TimeoutIntervals - 1
    /\ Len(wait.polls) = 1
    /\ getTransactionReceipt(wait.txHash) /= NoReceipt

\* C25: a wait ends as confirmed only with a receipt of its transaction
\* that lies at least the required number of blocks (2 in onboarding) below
\* the current block; until a poll sees that depth, or the deadline comes,
\* the wait stays unresolved with both timers running; and the workflow
\* goes from its registration step to its verification step, or stores
\* 'confirmed', only on a wait that ended with such a receipt.
C25_ConfirmedOnlyAtDepth ==
    /\ [](wait.result = "receipt" =>
            /\ wait.receipt /= NoReceipt
            /\ wait.receipt = getTransactionReceipt(wait.txHash)
            /\ wait.confirmations = 2
            /\ getCurrentBlockNumber - wait.receipt.blockNumber >= 2)
    /\ []((wait.txHash /= NoHash /\ wait.result = "none") =>
            wait.timeoutId /\ wait.intervalId)
    /\ [][(wf.pc = "waitRegistration" /\ wf'.pc = "waitVerification") =>
            wait.result = "receipt"]_vars
    /\ [][(wf.pc = "waitVerification" /\ wf'.pc = "idle"
           /\ userRecord'.verificationStatus = "confirmed") =>
            wait.result = "receipt"]_vars

\* The registration is mined one block below the head, the poll of the
\* current interval has returned, and the wait goes on.
C25_Witness ==
    /\ wf.pc = "waitRegistration"
    /\ wait.result = "none"
    /\ wait.elapsed >= 1
    /\ wait.polledAt = wait.elapsed
    /\ wait.polls = <<>>
    /\ getTransactionReceipt(wait.txHash) /= NoReceipt
    /\ getCurrentBlockNumber - getTransactionReceipt(wait.txHash).blockNumber = 1

\* C26: a workflow that sent a registration sends its verification only
\* after its wait ended with the receipt of a registration that succeeded
\* and lies at the required depth; after a registration that timed out or
\* failed the workflow sends no verification.
C26_VerifyAfterConfirmedRegistration ==
    [][(/\ wf.pc = "waitRegistration"
        /\ Len(txs') > Len(txs)
        /\ txs'[Len(txs')].method = "verifyInstitution") =>
          LET receipt == getTransactionReceipt(wf.registrationTx) IN
          /\ wait.result = "receipt"
          /\ receipt /= NoReceipt
          /\ getCurrentBlockNumber - receipt.blockNumber >= Confirmations
          /\ receipt.status = 1]_vars

\* C27: when the wait of a step (registration or verification) ends with
\* null, the workflow answers without an error status and without
\* reporting full success, the answer carries the hash of the transaction
\* that timed out, and the user's record holds the status 'pending'.
C27_TimeoutIsPending ==
    [][(/\ wf.pc \in {"waitRegistration", "waitVerification"}
        /\ wait.result = "null"
        /\ wf'.pc /= wf.pc) =>
          /\ reply'.op = "registerUserOnBlockchain"
          /\ reply'.code = 200
          /\ reply'.status /= "fully_verified"
          /\ reply'.txHash = wait.txHash
          /\ userRecord'.verificationStatus = "pending"]_vars

\* C28: the shadow record never claims more than the chain holds.  In
\* every state, verificationStatus = 'confirmed' only if instA has been made
\* an authorized issuer by a verifyInstitution that succeeded, and
\* isRegistered only if the registry holds a record of instA.
C28_ShadowNotStronger ==
    /\ userRecord.verificationStatus = "confirmed" =>
          issuerEvent[UserWallet] /= "none"
    /\ userRecord.isRegistered => institutions[UserWallet].name /= ""

\* C29: a status check (a step that answers checkVerificationStatus and
\* touches nothing but the answer and the user's record) for the hash the
\* record holds as verificationTxHash, when that transaction is mined with
\* success, stores 'confirmed' and the block of the receipt; a check for
\* any other hash, or for a transaction that is unknown, not mined or
\* reverted, leaves the record as it is.
C29_StatusCheckUpgrades ==
    [][(/\ reply'.op = "checkVerificationStatus"
        /\ UNCHANGED <<chainVars, blockNumber, txs, wf, wait>>
        /\ (reply' /= reply \/ userRecord' /= userRecord)) =>
          LET txHash == reply'.txHash
              receipt == getTransactionReceipt(txHash) IN
          IF /\ txHash = userRecord.verificationTxHash
             /\ receipt /= NoReceipt
             /\ receipt.status = 1
          THEN userRecord' = [userRecord EXCEPT
                                 !.verificationStatus = "confirmed",
                                 !.verificationBlockNumber = receipt.blockNumber]
          ELSE userRecord' = userRecord]_vars

\* The verification timed out, was mined with success afterwards, and the
\* check for its hash has stored 'confirmed' with its block while the
\* receipt is less than two blocks deep.
C29_Witness ==
    LET txHash == userRecord.verificationTxHash IN
    /\ reply = Reply("checkVerificationStatus", 200, "success", txHash)
    /\ wf.pc = "idle"
    /\ txHash \in 1..Len(txs)
    /\ txs[txHash].method = "verifyInstitution"
    /\ txs[txHash].status = 1
    /\ getCurrentBlockNumber - txs[txHash].blockNumber < Confirmations
    /\ userRecord.verificationStatus = "confirmed"
    /\ userRecord.verificationBlockNumber = txs[txHash].blockNumber

\* C30: a mined transaction that reverted is a failure of its step.  A wait
\* never ends as confirmed with a receipt of status 0, the workflow is never
\* in its verification step after a registration that reverted, and the
\* user's record never holds 'confirmed' for a verification transaction
\* that reverted.
C30_RevertedIsFailed ==
    /\ wait.result = "receipt" => wait.receipt.status = 1
    /\ (wf.pc = "waitVerification" /\ wf.registrationTx /= NoHash) =>
          txs[wf.registrationTx].status = 1
    /\ (/\ userRecord.verificationStatus = "confirmed"
        /\ userRecord.verificationTxHash \in 1..Len(txs)) =>
          txs[userRecord.verificationTxHash].status /= 0

\* ------------------------------------------------ claims, fourth part
\* C31: a step that starts the onboarding workflow (the workflow is idle and
\* the step changes the server's state only) for an institution that is
\* already an authorized issuer submits no transaction and answers with
\* success; for an institution that has a record but is not authorized it
\* submits no registerInstitution transaction and goes to the verification
\* step (or fails because the provider rejects the verification).
C31_IdempotencyGuard ==
    [][(/\ wf.pc = "idle"
        /\ UNCHANGED <<chainVars, blockNumber>>
        /\ <<txs, wf, wait, userRecord, reply>>' /= <<txs, wf, wait, userRecord, reply>>) =>
          /\ isAuthorizedIssuer(UserWallet) =>
                /\ txs' = txs
                /\ wf'.pc = "idle"
                /\ reply'.op = "registerUserOnBlockchain"
                /\ reply'.code = 200
          /\ (~isAuthorizedIssuer(UserWallet) /\ institutions[UserWallet].name /= "") =>
                /\ \A h \in (Len(txs) + 1)..Len(txs') :
                       txs'[h].method /= "registerInstitution"
                /\ \/ /\ wf'.pc = "waitVerification"
                      /\ Len(txs') = Len(txs) + 1
                      /\ txs'[Len(txs')].method = "verifyInstitution"
                   \/ /\ txs' = txs
                      /\ reply'.code = 500]_vars

\* C32: no two transactions the server wallet has submitted carry the same
\* nonce.
C32_NoncesAreDistinct ==
    \A i, j \in 1..Len(signer.sent) :
        i /= j => signer.sent[i].nonce /= signer.sent[j].nonce

\* C33: whenever the server answers a verification of one token with
\* isValid = true, the token is valid on-chain at that moment: it exists, is
\* not revoked, has not expired, and the issuer the ledger records for it is
\* an authorized issuer.
C33_VerdictFollowsChain ==
    [][(/\ reply'.op = "verifyCredential"
        /\ reply' /= reply
        /\ UNCHANGED chainVars
        /\ reply'.isValid) =>
          LET tokenId == reply'.tokenId IN
          /\ Exists(tokenId)
          /\ ~credentials[tokenId].revoked
          /\ ~Expired(credentials[tokenId])
          /\ isAuthorizedIssuer(credentials[tokenId].issuer)]_vars

\* The three addresses getAddresses returns are all zero, all non-zero.
AllZero(f) ==
    /\ f.registryContract = Zero
    /\ f.credentialContract = Zero
    /\ f.verificationContract = Zero
NoneZero(f) ==
    /\ f.registryContract /= Zero
    /\ f.credentialContract /= Zero
    /\ f.verificationContract /= Zero

\* C34: deploySystem succeeds only for the factory's owner and only while the
\* three addresses are zero; the addresses are all zero or all non-zero;
\* only a successful deploySystem changes them, from zero to non-zero; once
\* non-zero they never change and every deploySystem call fails.
C34_DeployOnce ==
    /\ [](AllZero(factory) \/ NoneZero(factory))
    /\ [][LET Call == ret'.op = "deploySystem" /\ (ret' /= ret \/ factory' /= factory) IN
          /\ (Call /\ ret'.err = NoRevert) =>
                 /\ ret'.caller = factory.owner
                 /\ AllZero(factory)
                 /\ NoneZero(factory')
          /\ (Call /\ ret'.err /= NoRevert) => factory' = factory
          /\ (Call /\ NoneZero(factory)) => ret'.err /= NoRevert
          /\ factory' /= factory => (Call /\ ret'.err = NoRevert)
          /\ factory'.owner = factory.owner]_vars

\* The system is deployed and a second deploySystem of the owner has failed.
C34_Witness ==
    /\ getAddresses = <<RegistryAddr, LedgerAddr, VerifierAddr>>
    /\ ret.op = "deploySystem"
    /\ ret.caller = factory.owner
    /\ ret.err /= NoRevert

\* C40: once the factory has deployed the system, the owner and the only
\* admin of the registry (and the owner of the ledger) is the factory; every
\* call by an account that would register, verify or revoke an institution,
\* add an admin, take the ownership or issue a credential fails; no
\* institution has a record, no address is an authorized issuer, and the
\* ledger holds no credential.
C40_FactorySystemIsSealed ==
    Deployed =>
        /\ owner = FactoryAddr
        /\ nftOwner = FactoryAddr
        /\ \A a \in DOMAIN admins : admins[a] <=> a = FactoryAddr
        /\ \A a \in Addr : institutions[a] = NoInstitution /\ ~authorizedIssuers[a]
        /\ issuerList = <<>>
        /\ tokenIdCounter = 0
        /\ credentials = <<>>
        /\ owners = <<>>
        /\ registry = RegistryAddr
        /\ ret.op \in {"registerInstitution", "verifyInstitution", "revokeInstitution",
                       "addAdmin", "removeAdmin", "transferOwnership",
                       "updateInstitutionInfo", "incrementCredentialCount",
                       "issueCredential", "updateRegistry", "updateContracts"} =>
              ret.err /= NoRevert

\* The owner of the factory, after deploying the system, has tried to
\* register an institution and was refused as not being an admin.
C40_Witness ==
    /\ Deployed
    /\ ret.op = "registerInstitution"
    /\ ret.caller = factory.owner
    /\ ret.addr = "instA"
    /\ ret.err = "Not authorized admin"

C36_IssuerListIsAuthorizedSet ==
    /\ \A a \in Addr :
          Cardinality({i \in 1..Len(getAllIssuers) : getAllIssuers[i] = a})
              = IF isAuthorizedIssuer(a) THEN 1 ELSE 0
    /\ getVerifiedInstitutionsCount = Cardinality({a \in Addr : isAuthorizedIssuer(a)})

\* C37: the credentialsIssued counter of every address equals the number of
\* credentials of the ledger issued by that address; no step lowers it, and
\* a step raises it only by one (a batch: by the size of the batch) and only
\* as a successful issuance by that address.
C37_CounterCountsIssued ==
    /\ [](\A a \in Addr :
             institutions[a].credentialsIssued =
                 Cardinality({t \in DOMAIN credentials : credentials[t].issuer = a}))
    /\ [][\A a \in Addr :
             /\ institutions'[a].credentialsIssued >= institutions[a].credentialsIssued
             /\ institutions'[a].credentialsIssued > institutions[a].credentialsIssued =>
                   /\ ret'.op \in {"issueCredential", "batchIssueCredentials"}
                   /\ ret'.err = NoRevert
                   /\ ret'.caller = a
                   /\ tokenIdCounter' - tokenIdCounter =
                        institutions'[a].credentialsIssued - institutions[a].credentialsIssued]_vars

\* The sum of the values of counter f over the keys in S.
RECURSIVE SumOver(_, _)
SumOver(f, S) ==
    IF S = {} THEN 0
    ELSE LET x == CHOOSE y \in S : TRUE IN f[x] + SumOver(f, S \ {x})

\* C38: totalVerifications equals the sum of verificationCount over all
\* token ids, minted or not, and the sum of verifierCount over all addresses.
C38_TotalIsSumOfCounts ==
    /\ totalVerifications = SumOver(verificationCount, DOMAIN verificationCount)
    /\ totalVerifications = SumOver(verifierCount, DOMAIN verifierCount)

\* A batch of "student" over a token id that was never minted and token 0
\* has been counted.
C38_Witness ==
    /\ ret.op = "batchVerifyCredentials"
    /\ ret.err = NoRevert
    /\ ret.ids = <<MaxTokens, 0>>
    /\ ~Exists(MaxTokens)
    /\ verificationCount[MaxTokens] = 1
    /\ verificationCount[0] = 1
    /\ verifierCount["student"] = 2
    /\ totalVerifications = 2

\* C39: every shadow record belongs to a token of the ledger whose issuer
\* of record is the issuer address of the shadow record; an issue request
\* whose authorization check has passed is not refused by the ledger for
\* lack of authorization of the sender; and a revocation the server sends
\* comes from the address the ledger holds as the issuer of the token.
C39_ShadowIssuerIsChainIssuer ==
    /\ [](\A t \in DOMAIN dbCredentials :
             dbCredentials[t] /= NoCredential =>
                 /\ Exists(t)
                 /\ credentials[t].issuer = dbCredentials[t].issuer)
    /\ [][(/\ reply'.op = "issueCredential"
           /\ reply' /= reply \/ dbCredentials' /= dbCredentials
           /\ reply'.code /= 403) =>
             ret'.err /= "Not authorized issuer"]_vars
    /\ [][(/\ reply'.op = "revokeCredential"
           /\ reply' /= reply \/ dbCredentials' /= dbCredentials
           /\ reply'.code \in {200, 500}) =>
             /\ Exists(ret'.tokenId)
             /\ ret'.caller = credentials[ret'.tokenId].issuer]_vars

====
